---- MODULE Spec2Model ----
(***************************************************************************)
(* Model of the sfz voice engine (soundfonts/src/sfz/engine.rs): the       *)
(* per-region MIDI dispatch (trigger modes, sustain pedal, controller      *)
(* triggers), the mutually exclusive groups and the block processing.      *)
(*                                                                         *)
(* Units.  Time is counted in samples at host_samplerate = 1 (as in the    *)
(* unit tests), so time_since_note_on in seconds equals the number of      *)
(* samples processed.  Gains are kept as the argument of utils::dB_to_gain *)
(* in hundredths of a dB (dB_to_gain is strictly increasing, so two gains  *)
(* are equal exactly when their dB values are).  Random draws and          *)
(* RandomRange endpoints are hundredths (0.5 is 50).  Every instrument of  *)
(* the model has pitch_keytrack = 0 and tune = 0 and a sample recorded at  *)
(* the host rate, so every voice advances one frame per output sample.     *)
(***************************************************************************)
EXTENDS Integers, Sequences, FiniteSets, TLC

VARIABLES params, inputs, regions, ev, hist, script, scn

vars == <<params, inputs, regions, ev, hist, script, scn>>

----------------------------------------------------------------------------
(* Bounds of the model *)

MaxVoices == 2      \* voices of one region that may sound at the same time
MaxTime == 2        \* time_since_note_on values from MaxTime on are identified
MaxBlock == 2       \* longest buffer handed to process

----------------------------------------------------------------------------
(* Values *)

None == -1

Min(a, b) == IF a < b THEN a ELSE b

Abs(a) == IF a < 0 THEN 0 - a ELSE a

Triggers == {"Attack", "Release", "First", "Legato", "ReleaseKey"}

\* -20 * log10(127^2 / vel^2) in hundredths of a dB, for the velocities
\* (and their mirror images 127 - vel) that the model sends.
VelocityDbTable == (30 :> -2507) @@ (63 :> -1218) @@ (64 :> -1191) @@
                   (97 :> -468) @@ (127 :> 0)

----------------------------------------------------------------------------
(* Range types *)

VelRangeCovering(range, vel) == vel >= range.lo /\ vel <= range.hi

NoteRangeCovering(range, note) ==
    IF range.lo # None /\ range.hi # None
    THEN note >= range.lo /\ note <= range.hi
    ELSE FALSE

RandomRangeCovering(range, v) ==
    range.hi = range.lo \/ (v >= range.lo /\ v < range.hi)

\* ControlValRange::covering taking a missing endpoint for no limit.
ControlValRangeCovering_open(range, val) ==
    /\ range.lo # None => val >= range.lo
    /\ range.hi # None => val <= range.hi

ControlValRangeCovering(range, val) ==
    IF range.lo # None /\ range.hi # None
    THEN val >= range.lo /\ val <= range.hi
    ELSE FALSE

DefaultRegionData ==
    [key_range |-> [lo |-> 0, hi |-> 127],
     vel_range |-> [lo |-> 0, hi |-> 127],
     random_range |-> [lo |-> 0, hi |-> 0],
     on_ccs |-> <<>>,
     pitch_keycenter |-> 60,
     amp_veltrack |-> 100,
     volume |-> 0,
     rt_decay |-> 0,
     trigger |-> "Attack",
     group |-> 0,
     off_by |-> 0,
     ampeg_release |-> 0,
     sample_len |-> 3]

----------------------------------------------------------------------------
(* sample::Sample: the voices of one region, oldest first.  A voice is     *)
(* [note, phase, releasing, rel, gain]: phase counts the frames played,    *)
(* rel the samples left of the release tail.                               *)

ReleaseVoice(v, p) ==
    IF v.releasing THEN v
    ELSE [v EXCEPT !.releasing = TRUE, !.rel = p.ampeg_release]

SampleNoteOn(voices, note, gain, p) ==
    Append([i \in DOMAIN voices |->
               IF voices[i].note = note THEN ReleaseVoice(voices[i], p)
               ELSE voices[i]],
           [note |-> note, phase |-> 0, releasing |-> FALSE, rel |-> 0,
            gain |-> gain])

SampleNoteOff(voices, note, p) ==
    LET cand == {i \in DOMAIN voices :
                    voices[i].note = note /\ ~voices[i].releasing}
    IN IF cand = {} THEN voices
       ELSE LET oldest == CHOOSE i \in cand : \A j \in cand : i <= j
            IN [voices EXCEPT ![oldest] = ReleaseVoice(@, p)]

SampleAllNotesOff(voices, p) ==
    [i \in DOMAIN voices |-> ReleaseVoice(voices[i], p)]

VoiceAdvance(v, n) ==
    [v EXCEPT !.phase = @ + n,
              !.rel = IF v.releasing THEN @ - n ELSE @]

VoiceEnded(v, p) == v.phase >= p.sample_len \/ (v.releasing /\ v.rel <= 0)

SampleProcess(voices, n, p) ==
    LET adv == [i \in DOMAIN voices |-> VoiceAdvance(voices[i], n)]
    IN SelectSeq(adv, LAMBDA v : ~VoiceEnded(v, p))

SampleIsPlaying(voices) == Len(voices) > 0

is_playing_note(voices, note) ==
    \E i \in DOMAIN voices : voices[i].note = note /\ ~voices[i].releasing

is_releasing_note(voices, note) ==
    \E i \in DOMAIN voices : voices[i].note = note /\ voices[i].releasing

----------------------------------------------------------------------------
(* Region *)

RegionNew ==
    [sample |-> <<>>,
     gain |-> 0,
     last_note_on |-> <<>>,
     notes_for_release_trigger |-> {},
     other_notes_on |-> {},
     time_since_note_on |-> 0,
     sustain_pedal_pushed |-> FALSE,
     once_immune_against_group_events |-> FALSE]

\* Region::process returning early when the sample is playing.
RegionProcess_returning_when_playing(p, s, n) ==
    LET t == [s EXCEPT !.time_since_note_on = Min(@ + n, MaxTime)]
    IN IF SampleIsPlaying(t.sample) THEN t
       ELSE [t EXCEPT !.sample = SampleProcess(@, n, p)]

\* Region::process counting the calls instead of the samples.
RegionProcess_counting_calls(p, s, n) ==
    LET t == [s EXCEPT !.time_since_note_on = Min(@ + 1, MaxTime)]
    IN IF ~SampleIsPlaying(t.sample) THEN t
       ELSE [t EXCEPT !.sample = SampleProcess(@, n, p)]

RegionProcess(p, s, n) ==
    LET t == [s EXCEPT !.time_since_note_on = Min(@ + n, MaxTime)]
    IN IF ~SampleIsPlaying(t.sample) THEN t
       ELSE [t EXCEPT !.sample = SampleProcess(@, n, p)]

note_on(p, s, note, velocity) ==
    LET vel == IF p.amp_veltrack < 0 THEN 127 - velocity ELSE velocity
        velocity_db == IF vel = 0 THEN -16000 ELSE VelocityDbTable[vel]
        rt_decay == IF p.trigger \in {"Release", "ReleaseKey"}
                    THEN s.time_since_note_on * (0 - p.rt_decay)
                    ELSE 0
        gain == p.volume + (velocity_db * Abs(p.amp_veltrack)) \div 100
                + rt_decay
    IN [s EXCEPT !.gain = gain,
                 !.time_since_note_on = 0,
                 !.sample = SampleNoteOn(@, note, gain, p)]

note_off(p, s, note) == [s EXCEPT !.sample = SampleNoteOff(@, note, p)]

\* The loop of sustain_pedal leaving after the first note.
NoteOffAll_one_note(p, s, notes) ==
    IF notes = {} THEN s
    ELSE note_off(p, s, CHOOSE x \in notes : TRUE)

RECURSIVE NoteOffAll(_, _, _)
NoteOffAll(p, s, notes) ==
    IF notes = {} THEN s
    ELSE LET note == CHOOSE x \in notes : TRUE
         IN NoteOffAll(p, note_off(p, s, note), notes \ {note})

\* sustain_pedal releasing every voice when the pedal goes up.
sustain_pedal_all_off(p, s, pushed) ==
    LET t == [s EXCEPT !.sustain_pedal_pushed = pushed]
    IN IF pushed THEN t
       ELSE IF p.trigger = "Release"
            THEN IF t.last_note_on = <<>> THEN t
                 ELSE note_on(p, t, t.last_note_on[1], t.last_note_on[2])
            ELSE [t EXCEPT !.sample = SampleAllNotesOff(@, p),
                           !.notes_for_release_trigger = {}]

\* sustain_pedal without the arm for Trigger::Release.
sustain_pedal_no_release_trigger(p, s, pushed) ==
    LET t == [s EXCEPT !.sustain_pedal_pushed = pushed]
    IN IF pushed THEN t
       ELSE [NoteOffAll(p, t, t.notes_for_release_trigger)
               EXCEPT !.notes_for_release_trigger = {}]

\* sustain_pedal with Trigger::ReleaseKey in the arm of Trigger::Release.
sustain_pedal_release_key(p, s, pushed) ==
    LET t == [s EXCEPT !.sustain_pedal_pushed = pushed]
    IN IF pushed THEN t
       ELSE IF p.trigger \in {"Release", "ReleaseKey"}
            THEN IF t.last_note_on = <<>> THEN t
                 ELSE note_on(p, t, t.last_note_on[1], t.last_note_on[2])
            ELSE [NoteOffAll(p, t, t.notes_for_release_trigger)
                    EXCEPT !.notes_for_release_trigger = {}]

\* sustain_pedal starting the voice of Trigger::Release only for a deferred
\* note.
sustain_pedal_release_deferred_only(p, s, pushed) ==
    LET t == [s EXCEPT !.sustain_pedal_pushed = pushed]
    IN IF pushed THEN t
       ELSE IF p.trigger = "Release"
            THEN IF t.last_note_on = <<>> \/ t.notes_for_release_trigger = {}
                 THEN t
                 ELSE note_on(p, t, t.last_note_on[1], t.last_note_on[2])
            ELSE [NoteOffAll(p, t, t.notes_for_release_trigger)
                    EXCEPT !.notes_for_release_trigger = {}]

\* sustain_pedal without notes_for_release_trigger.clear().
sustain_pedal_keeping_notes(p, s, pushed) ==
    LET t == [s EXCEPT !.sustain_pedal_pushed = pushed]
    IN IF pushed THEN t
       ELSE IF p.trigger = "Release"
            THEN IF t.last_note_on = <<>> THEN t
                 ELSE note_on(p, t, t.last_note_on[1], t.last_note_on[2])
            ELSE NoteOffAll(p, t, t.notes_for_release_trigger)

sustain_pedal(p, s, pushed) ==
    LET t == [s EXCEPT !.sustain_pedal_pushed = pushed]
    IN IF pushed THEN t
       ELSE IF p.trigger = "Release"
            THEN IF t.last_note_on = <<>> THEN t
                 ELSE note_on(p, t, t.last_note_on[1], t.last_note_on[2])
            ELSE [NoteOffAll(p, t, t.notes_for_release_trigger)
                    EXCEPT !.notes_for_release_trigger = {}]

\* handle_note_on without notes_for_release_trigger.remove.
handle_note_on_keeping_pending(p, s, note, velocity) ==
    IF ~NoteRangeCovering(p.key_range, note)
    THEN [r |-> [s EXCEPT !.other_notes_on = @ \cup {note}], fired |-> FALSE]
    ELSE IF ~VelRangeCovering(p.vel_range, velocity)
    THEN [r |-> s, fired |-> FALSE]
    ELSE IF p.trigger \in {"Release", "ReleaseKey"}
    THEN [r |-> [s EXCEPT !.last_note_on = <<note, velocity>>],
          fired |-> FALSE]
    ELSE IF p.trigger = "First" /\ s.other_notes_on # {}
    THEN [r |-> s, fired |-> FALSE]
    ELSE IF p.trigger = "Legato" /\ s.other_notes_on = {}
    THEN [r |-> s, fired |-> FALSE]
    ELSE [r |-> note_on(p, s, note, velocity), fired |-> TRUE]

\* handle_note_on without the test of other_notes_on for Trigger::Legato.
handle_note_on_legato_unconditional(p, s, note, velocity) ==
    IF ~NoteRangeCovering(p.key_range, note)
    THEN [r |-> [s EXCEPT !.other_notes_on = @ \cup {note}], fired |-> FALSE]
    ELSE IF ~VelRangeCovering(p.vel_range, velocity)
    THEN [r |-> s, fired |-> FALSE]
    ELSE IF p.trigger \in {"Release", "ReleaseKey"}
    THEN [r |-> [s EXCEPT !.last_note_on = <<note, velocity>>],
          fired |-> FALSE]
    ELSE IF p.trigger = "First" /\ s.other_notes_on # {}
    THEN [r |-> s, fired |-> FALSE]
    ELSE [r |-> [note_on(p, s, note, velocity)
                   EXCEPT !.notes_for_release_trigger = @ \ {note}],
          fired |-> TRUE]

\* handle_note_on without the test of other_notes_on for Trigger::First.
handle_note_on_first_unconditional(p, s, note, velocity) ==
    IF ~NoteRangeCovering(p.key_range, note)
    THEN [r |-> [s EXCEPT !.other_notes_on = @ \cup {note}], fired |-> FALSE]
    ELSE IF ~VelRangeCovering(p.vel_range, velocity)
    THEN [r |-> s, fired |-> FALSE]
    ELSE IF p.trigger \in {"Release", "ReleaseKey"}
    THEN [r |-> [s EXCEPT !.last_note_on = <<note, velocity>>],
          fired |-> FALSE]
    ELSE IF p.trigger = "Legato" /\ s.other_notes_on = {}
    THEN [r |-> s, fired |-> FALSE]
    ELSE [r |-> [note_on(p, s, note, velocity)
                   EXCEPT !.notes_for_release_trigger = @ \ {note}],
          fired |-> TRUE]

\* The handlers return [r |-> the region afterwards, fired |-> the result].
handle_note_on(p, s, note, velocity) ==
    IF ~NoteRangeCovering(p.key_range, note)
    THEN [r |-> [s EXCEPT !.other_notes_on = @ \cup {note}], fired |-> FALSE]
    ELSE IF ~VelRangeCovering(p.vel_range, velocity)
    THEN [r |-> s, fired |-> FALSE]
    ELSE IF p.trigger \in {"Release", "ReleaseKey"}
    THEN [r |-> [s EXCEPT !.last_note_on = <<note, velocity>>],
          fired |-> FALSE]
    ELSE IF p.trigger = "First" /\ s.other_notes_on # {}
    THEN [r |-> s, fired |-> FALSE]
    ELSE IF p.trigger = "Legato" /\ s.other_notes_on = {}
    THEN [r |-> s, fired |-> FALSE]
    ELSE [r |-> [note_on(p, s, note, velocity)
                   EXCEPT !.notes_for_release_trigger = @ \ {note}],
          fired |-> TRUE]

\* handle_note_off without the test of key_range.
handle_note_off_any_key(p, s, note) ==
    IF p.trigger \in {"Release", "ReleaseKey"}
    THEN IF s.last_note_on # <<>>
         THEN [r |-> note_on(p, s, s.last_note_on[1], s.last_note_on[2]),
               fired |-> TRUE]
         ELSE [r |-> s, fired |-> FALSE]
    ELSE IF ~s.sustain_pedal_pushed
    THEN [r |-> note_off(p, s, note), fired |-> FALSE]
    ELSE [r |-> [s EXCEPT !.notes_for_release_trigger = @ \cup {note}],
          fired |-> FALSE]

\* handle_note_off keeping the note for the pedal while the pedal is not
\* pushed, and releasing it while it is.
handle_note_off_pedal_inverted(p, s, note) ==
    IF ~NoteRangeCovering(p.key_range, note)
    THEN [r |-> [s EXCEPT !.other_notes_on = @ \ {note}], fired |-> FALSE]
    ELSE IF p.trigger \in {"Release", "ReleaseKey"}
    THEN IF s.last_note_on # <<>>
         THEN [r |-> note_on(p, s, s.last_note_on[1], s.last_note_on[2]),
               fired |-> TRUE]
         ELSE [r |-> s, fired |-> FALSE]
    ELSE IF s.sustain_pedal_pushed
    THEN [r |-> note_off(p, s, note), fired |-> FALSE]
    ELSE [r |-> [s EXCEPT !.notes_for_release_trigger = @ \cup {note}],
          fired |-> FALSE]

\* handle_note_off testing the pedal before the trigger.
handle_note_off_pedal_first(p, s, note) ==
    IF ~NoteRangeCovering(p.key_range, note)
    THEN [r |-> [s EXCEPT !.other_notes_on = @ \ {note}], fired |-> FALSE]
    ELSE IF s.sustain_pedal_pushed
    THEN [r |-> [s EXCEPT !.notes_for_release_trigger = @ \cup {note}],
          fired |-> FALSE]
    ELSE IF p.trigger \in {"Release", "ReleaseKey"}
    THEN IF s.last_note_on # <<>>
         THEN [r |-> note_on(p, s, s.last_note_on[1], s.last_note_on[2]),
               fired |-> TRUE]
         ELSE [r |-> s, fired |-> FALSE]
    ELSE [r |-> note_off(p, s, note), fired |-> FALSE]

\* handle_note_off without the test of sustain_pedal_pushed.
handle_note_off_ignoring_pedal(p, s, note) ==
    IF ~NoteRangeCovering(p.key_range, note)
    THEN [r |-> [s EXCEPT !.other_notes_on = @ \ {note}], fired |-> FALSE]
    ELSE IF p.trigger \in {"Release", "ReleaseKey"}
    THEN IF s.last_note_on # <<>>
         THEN [r |-> note_on(p, s, s.last_note_on[1], s.last_note_on[2]),
               fired |-> TRUE]
         ELSE [r |-> s, fired |-> FALSE]
    ELSE [r |-> note_off(p, s, note), fired |-> FALSE]

\* handle_note_off firing with the note of the NoteOff in place of the note
\* of last_note_on.
handle_note_off_own_note(p, s, note) ==
    IF ~NoteRangeCovering(p.key_range, note)
    THEN [r |-> [s EXCEPT !.other_notes_on = @ \ {note}], fired |-> FALSE]
    ELSE IF p.trigger \in {"Release", "ReleaseKey"}
    THEN IF s.last_note_on # <<>>
         THEN [r |-> note_on(p, s, note, s.last_note_on[2]),
               fired |-> TRUE]
         ELSE [r |-> s, fired |-> FALSE]
    ELSE IF ~s.sustain_pedal_pushed
    THEN [r |-> note_off(p, s, note), fired |-> FALSE]
    ELSE [r |-> [s EXCEPT !.notes_for_release_trigger = @ \cup {note}],
          fired |-> FALSE]

\* handle_note_off taking the stored note-on out of last_note_on.
handle_note_off_taking_last_note_on(p, s, note) ==
    IF ~NoteRangeCovering(p.key_range, note)
    THEN [r |-> [s EXCEPT !.other_notes_on = @ \ {note}], fired |-> FALSE]
    ELSE IF p.trigger \in {"Release", "ReleaseKey"}
    THEN IF s.last_note_on # <<>>
         THEN [r |-> [note_on(p, s, s.last_note_on[1], s.last_note_on[2])
                        EXCEPT !.last_note_on = <<>>],
               fired |-> TRUE]
         ELSE [r |-> s, fired |-> FALSE]
    ELSE IF ~s.sustain_pedal_pushed
    THEN [r |-> note_off(p, s, note), fired |-> FALSE]
    ELSE [r |-> [s EXCEPT !.notes_for_release_trigger = @ \cup {note}],
          fired |-> FALSE]

handle_note_off(p, s, note) ==
    IF ~NoteRangeCovering(p.key_range, note)
    THEN [r |-> [s EXCEPT !.other_notes_on = @ \ {note}], fired |-> FALSE]
    ELSE IF p.trigger \in {"Release", "ReleaseKey"}
    THEN IF s.last_note_on # <<>>
         THEN [r |-> note_on(p, s, s.last_note_on[1], s.last_note_on[2]),
               fired |-> TRUE]
         ELSE [r |-> s, fired |-> FALSE]
    ELSE IF ~s.sustain_pedal_pushed
    THEN [r |-> note_off(p, s, note), fired |-> FALSE]
    ELSE [r |-> [s EXCEPT !.notes_for_release_trigger = @ \cup {note}],
          fired |-> FALSE]

handle_control_event(p, s, cnum, cval) ==
    LET t == IF cnum = 64 THEN sustain_pedal(p, s, cval >= 64) ELSE s
    IN IF cnum \in DOMAIN p.on_ccs
          /\ ControlValRangeCovering(p.on_ccs[cnum], cval)
       THEN [r |-> note_on(p, t, p.pitch_keycenter, 127), fired |-> TRUE]
       ELSE [r |-> t, fired |-> FALSE]

NoteOnMsg(note, vel) ==
    [type |-> "NoteOn", note |-> note, vel |-> vel, cnum |-> None,
     cval |-> None]

NoteOffMsg(note) ==
    [type |-> "NoteOff", note |-> note, vel |-> None, cnum |-> None,
     cval |-> None]

ControlChangeMsg(cnum, cval) ==
    [type |-> "ControlChange", note |-> None, vel |-> None, cnum |-> cnum,
     cval |-> cval]

OtherMsg ==
    [type |-> "Other", note |-> None, vel |-> None, cnum |-> None,
     cval |-> None]

\* pass_midi_msg without the test of random_range.
pass_midi_msg_no_random(p, s, msg, random_value) ==
    LET t == [s EXCEPT !.once_immune_against_group_events = FALSE]
    IN CASE msg.type = "NoteOn" -> handle_note_on(p, t, msg.note, msg.vel)
         [] msg.type = "NoteOff" -> handle_note_off(p, t, msg.note)
         [] msg.type = "ControlChange" ->
              handle_control_event(p, t, msg.cnum, msg.cval)
         [] OTHER -> [r |-> t, fired |-> FALSE]

\* pass_midi_msg taking every other message for "all notes off".
pass_midi_msg_other_silences(p, s, msg, random_value) ==
    LET t == [s EXCEPT !.once_immune_against_group_events = FALSE]
    IN CASE msg.type = "NoteOn" ->
              IF RandomRangeCovering(p.random_range, random_value)
              THEN handle_note_on(p, t, msg.note, msg.vel)
              ELSE [r |-> t, fired |-> FALSE]
         [] msg.type = "NoteOff" -> handle_note_off(p, t, msg.note)
         [] msg.type = "ControlChange" ->
              handle_control_event(p, t, msg.cnum, msg.cval)
         [] OTHER -> [r |-> [t EXCEPT !.sample = SampleAllNotesOff(@, p)],
                      fired |-> FALSE]

pass_midi_msg(p, s, msg, random_value) ==
    LET t == [s EXCEPT !.once_immune_against_group_events = FALSE]
    IN CASE msg.type = "NoteOn" ->
              IF RandomRangeCovering(p.random_range, random_value)
              THEN handle_note_on(p, t, msg.note, msg.vel)
              ELSE [r |-> t, fired |-> FALSE]
         [] msg.type = "NoteOff" -> handle_note_off(p, t, msg.note)
         [] msg.type = "ControlChange" ->
              handle_control_event(p, t, msg.cnum, msg.cval)
         [] OTHER -> [r |-> t, fired |-> FALSE]

\* Region::group: the state it leaves (the value returned is p.group).
group(p, s) == [s EXCEPT !.once_immune_against_group_events = TRUE]

\* group_activated forgetting off_by.
group_activated_group_only(p, s, g) ==
    IF s.once_immune_against_group_events THEN s
    ELSE IF g = p.group
    THEN [s EXCEPT !.sample = SampleAllNotesOff(@, p)]
    ELSE s

group_activated(p, s, g) ==
    IF s.once_immune_against_group_events THEN s
    ELSE IF g = p.group \/ g = p.off_by
    THEN [s EXCEPT !.sample = SampleAllNotesOff(@, p)]
    ELSE s

\* all_notes_off leaving the voices to a pushed sustain pedal.
all_notes_off_unless_pedal(p, s) ==
    IF s.sustain_pedal_pushed THEN s
    ELSE [s EXCEPT !.sample = SampleAllNotesOff(@, p)]

all_notes_off(p, s) == [s EXCEPT !.sample = SampleAllNotesOff(@, p)]

----------------------------------------------------------------------------
(* Engine *)

Regs == DOMAIN params

NoMsg == [type |-> "None", note |-> None, vel |-> None, cnum |-> None,
          cval |-> None]

\* The operation that led to the current state.
Event(op, msg, rnd, n, fired, started) ==
    [op |-> op, msg |-> msg, rnd |-> rnd, n |-> n, fired |-> fired,
     started |-> started]

Step(op, msg, n) == [op |-> op, msg |-> msg, n |-> n]

\* script holds the scenarios that are followed through the run; scn[j] is
\* the number of steps of script[j] the run has performed so far, when the
\* run is a prefix of that scenario, and None once it has left the scenario.
Advance(op, msg, n) ==
    [j \in DOMAIN script |->
        IF scn[j] # None /\ scn[j] < Len(script[j])
           /\ script[j][scn[j] + 1] = Step(op, msg, n)
        THEN scn[j] + 1
        ELSE None]

Progress(sc) ==
    IF \E j \in DOMAIN script : script[j] = sc
    THEN scn[CHOOSE j \in DOMAIN script : script[j] = sc]
    ELSE None

\* A scripted host performs the operations of its first scenario, in order,
\* and nothing else; any other host may do anything at any time.
Allowed(op, msg, n) == inputs.scripted => Advance(op, msg, n)[1] # None

\* What the host has done so far, in the words of the MIDI stream:
\*   held      the notes with a NoteOn and no later NoteOff,
\*   pedal     whether the last CC64 had a value >= 64,
\*   deferred  per region that answers a NoteOff by releasing the note (its
\*             trigger is not Release or ReleaseKey), the notes inside its
\*             key range whose NoteOff arrived while the pedal was pushed,
\*             after the last NoteOn that started a voice of the region
\*             for the note and after the last pedal release.
HistNew ==
    [held |-> {}, pedal |-> FALSE, deferred |-> [i \in Regs |-> {}]]

HistAfter(msg, started) ==
    CASE msg.type = "NoteOn" ->
           [hist EXCEPT !.held = @ \cup {msg.note},
                        !.deferred = [i \in Regs |->
                            IF i \in started THEN @[i] \ {msg.note}
                            ELSE @[i]]]
      [] msg.type = "NoteOff" ->
           [hist EXCEPT !.held = @ \ {msg.note},
                        !.deferred = [i \in Regs |->
                            IF hist.pedal
                               /\ params[i].trigger
                                     \notin {"Release", "ReleaseKey"}
                               /\ NoteRangeCovering(params[i].key_range,
                                                    msg.note)
                            THEN @[i] \cup {msg.note}
                            ELSE @[i]]]
      [] msg.type = "ControlChange" /\ msg.cnum = 64 ->
           [hist EXCEPT !.pedal = (msg.cval >= 64),
                        !.deferred = IF msg.cval >= 64 THEN @
                                     ELSE [i \in Regs |-> {}]]
      [] OTHER -> hist

Passed(msg, random_value) ==
    [i \in Regs |-> pass_midi_msg(params[i], regions[i], msg, random_value)]

Fired(passed) == {i \in Regs : passed[i].fired}

Started(passed) ==
    {i \in Regs : Len(passed[i].r.sample) > Len(regions[i].sample)}

\* The groups collected without the test group > 0.
ActivatedGroups_with_zero(passed) ==
    {params[i].group : i \in Fired(passed)}

ActivatedGroups(passed) ==
    {params[i].group : i \in Fired(passed)} \ {0}

AfterPass(passed) ==
    [i \in Regs |-> IF passed[i].fired THEN group(params[i], passed[i].r)
                    ELSE passed[i].r]

\* The orders in which a HashSet may hand out its elements.
Orders(S) ==
    {f \in [1..Cardinality(S) -> S] :
        \A i, j \in 1..Cardinality(S) : i # j => f[i] # f[j]}

\* The broadcast stopping after the first group the HashSet hands out.
Broadcast_first_group(regs, order) ==
    IF order = <<>> THEN regs
    ELSE [i \in Regs |-> group_activated(params[i], regs[i], Head(order))]

RECURSIVE Broadcast(_, _)
Broadcast(regs, order) ==
    IF order = <<>> THEN regs
    ELSE Broadcast([i \in Regs |->
                       group_activated(params[i], regs[i], Head(order))],
                   Tail(order))

midi_event(msg, random_value) ==
    LET passed == Passed(msg, random_value)
    IN \E order \in Orders(ActivatedGroups(passed)) :
          /\ Allowed("midi_event", msg, 0)
          /\ regions' = Broadcast(AfterPass(passed), order)
          /\ \A i \in Regs : Len(regions'[i].sample) <= MaxVoices
          /\ ev' = Event("midi_event", msg, random_value, 0, Fired(passed),
                         Started(passed))
          /\ hist' = HistAfter(msg, Started(passed))
          /\ scn' = Advance("midi_event", msg, 0)
          /\ UNCHANGED <<params, inputs, script>>

NoteOn ==
    \E note \in inputs.notes, vel \in inputs.vels, r \in inputs.rands :
        midi_event(NoteOnMsg(note, vel), r)

NoteOff ==
    \E note \in inputs.notes, r \in inputs.rands :
        midi_event(NoteOffMsg(note), r)

ControlChange ==
    \E cc \in inputs.ccs, r \in inputs.rands :
        midi_event(ControlChangeMsg(cc[1], cc[2]), r)

OtherMessage ==
    \E r \in inputs.rands : midi_event(OtherMsg, r)

Process ==
    \E n \in 0..MaxBlock :
        /\ Allowed("process", NoMsg, n)
        /\ regions' = IF n * n = 0 THEN regions
                      ELSE [i \in Regs |->
                               RegionProcess(params[i], regions[i], n)]
        /\ ev' = Event("process", NoMsg, 0, n, {}, {})
        /\ scn' = Advance("process", NoMsg, n)
        /\ UNCHANGED <<params, inputs, hist, script>>

Fadeout ==
    /\ Allowed("fadeout", NoMsg, 0)
    /\ regions' = [i \in Regs |-> all_notes_off(params[i], regions[i])]
    /\ ev' = Event("fadeout", NoMsg, 0, 0, {}, {})
    /\ scn' = Advance("fadeout", NoMsg, 0)
    /\ UNCHANGED <<params, inputs, hist, script>>

\* fadeout_finished with all() where the code has any().
fadeout_finished_any_silent ==
    \E i \in Regs : ~SampleIsPlaying(regions[i].sample)

fadeout_finished ==
    ~\E i \in Regs : SampleIsPlaying(regions[i].sample)

Next ==
    \/ NoteOn
    \/ NoteOff
    \/ ControlChange
    \/ OtherMessage
    \/ Process
    \/ Fadeout

\* The engine right after Engine::from_region_array, for one of the given
\* setups [params, inputs, script].
InitWith(setups) ==
    \E su \in setups :
        /\ params = su.params
        /\ inputs = su.inputs
        /\ script = su.script
        /\ regions = [i \in DOMAIN su.params |-> RegionNew]
        /\ ev = Event("new", NoMsg, 0, 0, {}, {})
        /\ hist = HistNew
        /\ scn = [j \in DOMAIN su.script |-> 0]

----------------------------------------------------------------------------
(* Instruments with groups *)

KeyRegion(key, grp, off) ==
    [DefaultRegionData EXCEPT !.key_range = [lo |-> key, hi |-> key],
                              !.group = grp, !.off_by = off,
                              !.sample_len = 6]

\* tests::region_group: <region> key=a3, key=b3 group=1, key=c4 group=2,
\* key=d4 off_by=2, key=e4 group=1.
RegionGroupParams ==
    <<KeyRegion(57, 0, 0), KeyRegion(59, 1, 0), KeyRegion(60, 2, 0),
      KeyRegion(62, 0, 2), KeyRegion(64, 1, 0)>>

RegionGroupScript ==
    <<Step("midi_event", NoteOnMsg(57, 127), 0), Step("process", NoMsg, 1),
      Step("midi_event", NoteOnMsg(62, 127), 0), Step("process", NoMsg, 1),
      Step("midi_event", NoteOnMsg(59, 127), 0), Step("process", NoMsg, 1),
      Step("midi_event", NoteOnMsg(60, 127), 0), Step("process", NoMsg, 1),
      Step("midi_event", NoteOnMsg(64, 127), 0), Step("process", NoMsg, 1)>>

RegionGroupSetup ==
    [params |-> RegionGroupParams,
     inputs |-> [notes |-> {57, 59, 60, 62, 64}, vels |-> {127},
                 ccs |-> {}, rands |-> {0}, scripted |-> TRUE],
     script |-> <<RegionGroupScript>>]

\* A release sample and a pedal sample that share group 1.
PedalGroupParams ==
    <<[DefaultRegionData EXCEPT !.trigger = "Release", !.group = 1],
      [DefaultRegionData EXCEPT !.key_range = [lo |-> None, hi |-> None],
                                !.on_ccs = (64 :> [lo |-> 0, hi |-> 10]),
                                !.group = 1]>>

PedalGroupSetup ==
    [params |-> PedalGroupParams,
     inputs |-> [notes |-> {60}, vels |-> {63, 127},
                 ccs |-> {<<64, 0>>, <<64, 63>>, <<64, 64>>}, rands |-> {0},
                 scripted |-> FALSE],
     script |-> <<>>]

InitGroup == InitWith({RegionGroupSetup, PedalGroupSetup})

SpecGroup == InitGroup /\ [][Next]_vars

----------------------------------------------------------------------------
(* Instruments of one region, one for every trigger *)

TriggerRegion(t) ==
    [DefaultRegionData EXCEPT !.key_range = [lo |-> 60, hi |-> 62],
                              !.vel_range = [lo |-> 60, hi |-> 127],
                              !.trigger = t]

\* The scenarios of tests::note_off_sustain_pedal,
\* tests::note_off_polyphonic_sustain_pedal,
\* tests::note_on_note_on_sustain_pedal,
\* tests::note_trigger_release_sustain_pedal (as
\* tests::note_trigger_release_key_sustain_pedal) and tests::note_trigger_first,
\* with blocks of one sample.
PedalOn == Step("midi_event", ControlChangeMsg(64, 64), 0)

PedalOff == Step("midi_event", ControlChangeMsg(64, 63), 0)

On(note, vel) == Step("midi_event", NoteOnMsg(note, vel), 0)

Off(note) == Step("midi_event", NoteOffMsg(note), 0)

Block == Step("process", NoMsg, 1)

NoteOffSustainPedalScript ==
    <<On(60, 127), PedalOn, Off(60), PedalOff, Block>>

PolyphonicSustainPedalScript ==
    <<On(60, 127), PedalOn, On(62, 127), Off(60), Block, PedalOff, Block,
      Off(62), Block>>

NoteOnNoteOnSustainPedalScript ==
    <<On(60, 127), PedalOn, Off(60), Block, On(60, 127), PedalOff, Block,
      Off(60), Block>>

ReleaseSustainPedalScript ==
    <<PedalOn, PedalOff, PedalOn, On(60, 63), PedalOff>>

TriggerFirstScript == <<On(57, 127), Off(57), On(60, 127)>>

TriggerScripts ==
    <<NoteOffSustainPedalScript, PolyphonicSustainPedalScript,
      NoteOnNoteOnSustainPedalScript, ReleaseSustainPedalScript,
      TriggerFirstScript>>

TriggerSetup(t, notes, vels) ==
    [params |-> <<TriggerRegion(t)>>,
     inputs |-> [notes |-> notes, vels |-> vels,
                 ccs |-> {<<64, 63>>, <<64, 64>>}, rands |-> {0},
                 scripted |-> FALSE],
     script |-> TriggerScripts]

\* Every trigger is played with two keys of the region at one velocity, and
\* with a key of the region and one outside of it at three velocities, one
\* of them outside the region's range.
PairVels(t) == IF t \in {"Release", "ReleaseKey"} THEN {63} ELSE {127}

InitRegion ==
    InitWith({TriggerSetup(t, {60, 62}, PairVels(t)) : t \in Triggers}
             \cup {TriggerSetup(t, {57, 60}, {30, 63, 127}) : t \in Triggers})

SpecRegion == InitRegion /\ [][Next]_vars

----------------------------------------------------------------------------
(* Properties of the groups *)

Playing(i) == \E k \in DOMAIN regions[i].sample :
                  ~regions[i].sample[k].releasing

AllReleasing(i) == ~Playing(i)

Sounding == {i \in Regs : SampleIsPlaying(regions[i].sample)}

\* C1: when midi_event returns and a region with group g > 0 started a voice
\* in it, every region that started no voice in this event and whose group
\* or off_by is g has no non-releasing voice left.
C1_GroupChoke ==
    ev.op = "midi_event" =>
        \A r \in ev.started :
            params[r].group > 0 =>
                \A q \in Regs \ ev.started :
                    (params[q].group = params[r].group
                     \/ params[q].off_by = params[r].group)
                        => AllReleasing(q)

\* C2: when midi_event returns, the voice that a region started in this
\* event (the youngest voice of the region) is not releasing.
C2_FiringRegionImmune ==
    ev.op = "midi_event" =>
        \A r \in ev.started :
            ~regions[r].sample[Len(regions[r].sample)].releasing

\* C3: in the scenario of tests::region_group (note-ons hitting A, D, B, C, E,
\* each followed by a block of one sample) the sounding regions after the
\* blocks are {A}, {A,D}, {A,B,D}, {A,B,C}, {A,C,E}; D is silenced by the
\* note-on of C, B by the note-on of E, and A is never silenced.
RegionGroupExpected ==
    <<{1}, {1}, {1, 4}, {1, 4}, {1, 2, 4}, {1, 2, 4}, {1, 2, 3, 4},
      {1, 2, 3}, {1, 2, 3, 5}, {1, 3, 5}>>

C3_RegionGroupScenario ==
    LET at == Progress(RegionGroupScript)
    IN (at # None /\ at >= 1) =>
           /\ Sounding = RegionGroupExpected[at]
           /\ Playing(1)
           /\ at >= 3 /\ at <= 6 => Playing(4)
           /\ at = 7 => AllReleasing(4) /\ Playing(2) /\ Playing(3)
           /\ at = 9 => AllReleasing(2) /\ Playing(3) /\ Playing(5)

C3_Witness ==
    /\ Progress(RegionGroupScript) = Len(RegionGroupScript)
    /\ Sounding = {1, 3, 5}

----------------------------------------------------------------------------
(* Properties of one region.  The formulas below are about one step of the *)
(* engine: the unprimed variables are the state before the operation, the  *)
(* primed ones the state after it, and ev' names the operation.            *)

Midi(type) == ev'.op = "midi_event" /\ ev'.msg.type = type

PedalPushed ==
    Midi("ControlChange") /\ ev'.msg.cnum = 64 /\ ev'.msg.cval >= 64

PedalReleased ==
    Midi("ControlChange") /\ ev'.msg.cnum = 64 /\ ev'.msg.cval < 64

Blocks == ev'.op = "process"

\* The regions that answer a NoteOff by releasing the note and that no
\* controller fires.
Sustaining(i) ==
    /\ params[i].trigger \notin {"Release", "ReleaseKey"}
    /\ DOMAIN params[i].on_ccs = {}

ReleaseTriggered(i) == params[i].trigger \in {"Release", "ReleaseKey"}

InKeyRange(i, note) == NoteRangeCovering(params[i].key_range, note)

InVelRange(i, vel) == VelRangeCovering(params[i].vel_range, vel)

Drawn(i) == RandomRangeCovering(params[i].random_range, ev'.rnd)

\* The gain, as the argument of dB_to_gain, of a region with the default
\* volume, amp_veltrack and rt_decay for a velocity.
VelocityGain(vel) == VelocityDbTable[vel]

Youngest(voices) == voices[Len(voices)]

\* The operation appended one voice, of the given note and velocity, to the
\* voices of region i.
StartedVoice(i, note, vel) ==
    /\ Len(regions'[i].sample) = Len(regions[i].sample) + 1
    /\ Youngest(regions'[i].sample).note = note
    /\ Youngest(regions'[i].sample).gain = VelocityGain(vel)
    /\ Youngest(regions'[i].sample).phase = 0
    /\ ~Youngest(regions'[i].sample).releasing

\* The operation kept the voices of region i and sent to their release
\* exactly those of the notes in `notes` (beside the voices that were
\* releasing already).
ReleasedExactly(i, notes) ==
    /\ Len(regions'[i].sample) = Len(regions[i].sample)
    /\ \A k \in DOMAIN regions[i].sample :
          /\ regions'[i].sample[k].note = regions[i].sample[k].note
          /\ regions'[i].sample[k].phase = regions[i].sample[k].phase
          /\ regions'[i].sample[k].releasing
                <=> (regions[i].sample[k].releasing
                     \/ regions[i].sample[k].note \in notes)

At(sc) == Progress(sc)'

----------------------------------------------------------------------------
(* C4: deferred release *)

C4_NoteOffDeferred(i) ==
    (Midi("NoteOff") /\ hist.pedal /\ InKeyRange(i, ev'.msg.note))
        => regions'[i].sample = regions[i].sample

C4_StaysPlaying(i) ==
    Blocks =>
        \A note \in hist.deferred[i] :
            is_playing_note(regions[i].sample, note)
                => is_playing_note(regions'[i].sample, note)

C4_StaysUntilEnd(i) ==
    Blocks =>
        /\ \A k \in DOMAIN regions[i].sample :
              LET v == regions[i].sample[k]
              IN (v.note \in hist.deferred[i] /\ ~v.releasing) =>
                    IF v.phase + ev'.n < params[i].sample_len
                    THEN \E j \in DOMAIN regions'[i].sample :
                            regions'[i].sample[j]
                                = [v EXCEPT !.phase = v.phase + ev'.n]
                    ELSE ~is_playing_note(regions'[i].sample, v.note)
        /\ \A j \in DOMAIN regions'[i].sample :
              regions'[i].sample[j].releasing
                  => is_releasing_note(regions[i].sample,
                                       regions'[i].sample[j].note)

C4_PedalReleases(i) ==
    PedalReleased =>
        \A k \in DOMAIN regions[i].sample :
            regions[i].sample[k].note \in hist.deferred[i] =>
                /\ k \in DOMAIN regions'[i].sample
                /\ regions'[i].sample[k].note = regions[i].sample[k].note
                /\ regions'[i].sample[k].releasing

\* C4 as it is written: in a region whose trigger is not Release/ReleaseKey,
\* a NoteOff of an in-range note that arrives while the pedal is pushed
\* leaves the voices alone, every block after it leaves a non-releasing voice
\* of the note, and the next CC64 below 64 releases the voice.
C4_Original ==
    [][\A i \in Regs : Sustaining(i) =>
          /\ C4_NoteOffDeferred(i)
          /\ C4_StaysPlaying(i)
          /\ C4_PedalReleases(i)]_vars

\* C4, with the end of the sample: in a region whose trigger is not
\* Release/ReleaseKey, a NoteOff of an in-range note that arrives while the
\* pedal is pushed leaves the voices alone; no block sends a voice to its
\* release, and the deferred voice is still there, non-releasing and
\* advanced by the block, after every block that does not reach the end of
\* the sample (it ends, unreleased, with the block that does); the next CC64
\* below 64 releases the voice.
C4_DeferredRelease ==
    [][\A i \in Regs : Sustaining(i) =>
          /\ C4_NoteOffDeferred(i)
          /\ C4_StaysUntilEnd(i)
          /\ C4_PedalReleases(i)]_vars

C4_Witness ==
    /\ ev.op = "process"
    /\ ev.n > 0
    /\ hist.pedal
    /\ \E i \in Regs :
          /\ Sustaining(i)
          /\ \E note \in hist.deferred[i] :
                /\ note \notin hist.held
                /\ is_playing_note(regions[i].sample, note)

----------------------------------------------------------------------------
(* C5: polyphonic sustain *)

C5_Scenario(i) ==
    LET at == At(PolyphonicSustainPedalScript)
        voices == regions'[i].sample
    IN params[i].trigger = "Attack" =>
          /\ at = 5 => is_playing_note(voices, 60) /\ is_playing_note(voices, 62)
          /\ at \in {6, 7} =>
                /\ ~is_playing_note(voices, 60)
                /\ is_playing_note(voices, 62)
                /\ ~is_releasing_note(voices, 62)
          /\ at = 9 => ~SampleIsPlaying(voices)

----------------------------------------------------------------------------
(* C6: re-strike under the pedal *)

C6_Scenario(i) ==
    LET at == At(NoteOnNoteOnSustainPedalScript)
        voices == regions'[i].sample
    IN params[i].trigger = "Attack" =>
          /\ at = 4 =>
                /\ 60 \in regions'[i].notes_for_release_trigger
                /\ is_playing_note(voices, 60)
                /\ ~is_releasing_note(voices, 60)
          /\ at = 5 =>
                /\ 60 \notin regions'[i].notes_for_release_trigger
                /\ is_playing_note(voices, 60)
                /\ is_releasing_note(voices, 60)
          /\ at \in {6, 7} => is_playing_note(voices, 60)
          /\ at = 8 => ~is_playing_note(voices, 60)
          /\ at = 9 => ~SampleIsPlaying(voices)

\* C6: in a region whose trigger is not Release/ReleaseKey, a NoteOn that
\* fires the region takes its note out of the pending-release set, so that
\* the set holds the notes whose NoteOff the pedal deferred and that were not
\* struck again since; a CC64 below 64 leaves non-releasing every voice whose
\* note is not in the set; with the pedal up the NoteOff of the note releases
\* the voice, and the released voice is gone after the next block.  In the
\* scenario of tests::note_on_note_on_sustain_pedal the new voice of C3 plays
\* through the pedal release and the region is silent after the NoteOff.
C6_RestrikeUnderPedal ==
    [][\A i \in Regs : Sustaining(i) =>
          /\ (Midi("NoteOn") /\ i \in ev'.started) =>
                /\ ev'.msg.note \notin regions'[i].notes_for_release_trigger
                /\ Youngest(regions'[i].sample).note = ev'.msg.note
                /\ ~Youngest(regions'[i].sample).releasing
          /\ regions'[i].notes_for_release_trigger = hist'.deferred[i]
          /\ PedalReleased =>
                \A k \in DOMAIN regions[i].sample :
                    (~regions[i].sample[k].releasing
                     /\ regions[i].sample[k].note
                           \notin regions[i].notes_for_release_trigger)
                        => /\ k \in DOMAIN regions'[i].sample
                           /\ regions'[i].sample[k] = regions[i].sample[k]
          /\ (Midi("NoteOff") /\ ~hist.pedal)
                => ~is_playing_note(regions'[i].sample, ev'.msg.note)
          /\ (Blocks /\ ev'.n > 0 /\ params[i].ampeg_release = 0)
                => \A j \in DOMAIN regions'[i].sample :
                      ~regions'[i].sample[j].releasing
          /\ C6_Scenario(i)]_vars

C6_Witness ==
    /\ Progress(NoteOnNoteOnSustainPedalScript) = 6
    /\ params[1].trigger = "Attack"
    /\ is_playing_note(regions[1].sample, 60)
    /\ is_releasing_note(regions[1].sample, 60)
    /\ regions[1].notes_for_release_trigger = {}

----------------------------------------------------------------------------
(* C7: the Release and ReleaseKey triggers *)

\* C7: in a region with trigger Release or ReleaseKey a NoteOn starts no
\* voice; it stores (note, velocity) in last_note_on when key and velocity
\* are in range (and the draw is covered) and leaves last_note_on alone
\* otherwise.  A NoteOff of a note inside the key range starts a voice if and
\* only if last_note_on is set, and the voice has the note of last_note_on
\* and the gain of its velocity.
C7_ReleaseTriggers ==
    [][\A i \in Regs : (ReleaseTriggered(i) /\ DOMAIN params[i].on_ccs = {}) =>
          /\ Midi("NoteOn") =>
                /\ regions'[i].sample = regions[i].sample
                /\ i \notin ev'.started
                /\ regions'[i].last_note_on =
                      IF InKeyRange(i, ev'.msg.note)
                         /\ InVelRange(i, ev'.msg.vel) /\ Drawn(i)
                      THEN <<ev'.msg.note, ev'.msg.vel>>
                      ELSE regions[i].last_note_on
          /\ (Midi("NoteOff") /\ InKeyRange(i, ev'.msg.note)) =>
                /\ i \in ev'.started <=> regions[i].last_note_on # <<>>
                /\ regions'[i].last_note_on = regions[i].last_note_on
                /\ IF regions[i].last_note_on # <<>>
                   THEN StartedVoice(i, regions[i].last_note_on[1],
                                     regions[i].last_note_on[2])
                   ELSE regions'[i].sample = regions[i].sample]_vars

C7_Witness ==
    /\ ev.op = "midi_event"
    /\ ev.msg = NoteOffMsg(60)
    /\ 1 \in ev.started
    /\ ReleaseTriggered(1)
    /\ regions[1].last_note_on = <<62, 63>>
    /\ Youngest(regions[1].sample).note = 62
    /\ Youngest(regions[1].sample).gain = VelocityGain(63)

----------------------------------------------------------------------------
(* C8: the sustain pedal and trigger=Release *)

C8_Scenario(i) ==
    LET at == At(ReleaseSustainPedalScript)
        voices == regions'[i].sample
    IN /\ at \in {1, 2, 3, 4} => ~SampleIsPlaying(voices)
       /\ at = 5 =>
             /\ is_playing_note(voices, 60)
             /\ Len(voices) = 1
             /\ voices[1].gain = VelocityGain(63)
             /\ 60 \in hist'.held

\* C8: in a region with trigger Release, a CC64 below 64 that follows a push
\* starts a voice with the note of last_note_on and the gain of its velocity
\* when last_note_on is set, and starts nothing when it is not.  In the
\* scenario of tests::note_trigger_release_sustain_pedal a push and a release
\* start nothing; after a push and NoteOn C3 with velocity 63 nothing plays,
\* and the release of the pedal starts C3 with the gain of velocity 63 though
\* no NoteOff was received.
C8_ReleaseOnPedal ==
    [][\A i \in Regs :
          (params[i].trigger = "Release" /\ DOMAIN params[i].on_ccs = {}) =>
             /\ (PedalReleased /\ hist.pedal) =>
                   IF regions[i].last_note_on # <<>>
                   THEN /\ i \in ev'.started
                        /\ StartedVoice(i, regions[i].last_note_on[1],
                                        regions[i].last_note_on[2])
                   ELSE regions'[i].sample = regions[i].sample
             /\ C8_Scenario(i)]_vars

C8_Witness ==
    /\ Progress(ReleaseSustainPedalScript) = 5
    /\ params[1].trigger = "Release"
    /\ is_playing_note(regions[1].sample, 60)
    /\ Youngest(regions[1].sample).gain = VelocityGain(63)
    /\ 60 \in hist.held

----------------------------------------------------------------------------
(* C9: ReleaseKey and the sustain pedal *)

\* C9: a region with trigger ReleaseKey and no on_cc entry for controller 64
\* starts no voice, and changes none, at a CC64 event, whatever came before;
\* with no on_cc entry at all, a NoteOff is the only operation at which it
\* starts a voice.  In the scenario of
\* tests::note_trigger_release_key_sustain_pedal nothing plays after the
\* release of the pedal, though last_note_on is set.
C9_ReleaseKeyIgnoresPedal ==
    [][\A i \in Regs : params[i].trigger = "ReleaseKey" =>
          /\ (Midi("ControlChange") /\ ev'.msg.cnum = 64
              /\ 64 \notin DOMAIN params[i].on_ccs) =>
                /\ regions'[i].sample = regions[i].sample
                /\ i \notin ev'.started
          /\ (DOMAIN params[i].on_ccs = {}
              /\ Len(regions'[i].sample) > Len(regions[i].sample))
                => Midi("NoteOff")
          /\ At(ReleaseSustainPedalScript) = 5
                => ~SampleIsPlaying(regions'[i].sample)]_vars

C9_Witness ==
    /\ Progress(ReleaseSustainPedalScript) = 5
    /\ params[1].trigger = "ReleaseKey"
    /\ regions[1].last_note_on = <<60, 63>>
    /\ ~hist.pedal
    /\ ~SampleIsPlaying(regions[1].sample)

----------------------------------------------------------------------------
(* C10: trigger=First *)

\* C10: a region with trigger First that receives a NoteOn with key and
\* velocity in range (and a covered draw) starts a voice if and only if its
\* other_notes_on is empty at that moment; other_notes_on holds no note that
\* was released again, so that the region fires when every out-of-range note
\* that was pressed has been released.  In the scenario of
\* tests::note_trigger_first (A3 pressed and released, then C3) C3 plays.
C10_TriggerFirst ==
    [][\A i \in Regs : params[i].trigger = "First" =>
          /\ (Midi("NoteOn") /\ InKeyRange(i, ev'.msg.note)
              /\ InVelRange(i, ev'.msg.vel)) =>
                /\ i \in ev'.started => regions[i].other_notes_on = {}
                /\ (regions[i].other_notes_on = {} /\ Drawn(i))
                      => /\ i \in ev'.started
                         /\ StartedVoice(i, ev'.msg.note, ev'.msg.vel)
                /\ {n \in hist.held : ~InKeyRange(i, n)} = {}
                      => regions[i].other_notes_on = {}
          /\ regions'[i].other_notes_on
                \subseteq {n \in hist'.held : ~InKeyRange(i, n)}
          /\ At(TriggerFirstScript) = 3
                => is_playing_note(regions'[i].sample, 60)]_vars

C10_Witness ==
    /\ Progress(TriggerFirstScript) = 3
    /\ params[1].trigger = "First"
    /\ regions[1].other_notes_on = {}
    /\ 57 \notin hist.held
    /\ is_playing_note(regions[1].sample, 60)

----------------------------------------------------------------------------
(* C11: trigger=Legato *)

\* C11: a region with trigger Legato that receives a NoteOn with key and
\* velocity in range starts a voice only if its other_notes_on is not empty
\* at that moment (and does start one then, when the draw is covered); it
\* starts none when no note outside its key range is held, and so none in
\* the scenario where A3 was pressed and released before C3 is pressed.
C11_TriggerLegato ==
    [][\A i \in Regs : params[i].trigger = "Legato" =>
          /\ (Midi("NoteOn") /\ InKeyRange(i, ev'.msg.note)
              /\ InVelRange(i, ev'.msg.vel)) =>
                /\ i \in ev'.started => regions[i].other_notes_on # {}
                /\ (regions[i].other_notes_on # {} /\ Drawn(i))
                      => /\ i \in ev'.started
                         /\ StartedVoice(i, ev'.msg.note, ev'.msg.vel)
                /\ {n \in hist.held : ~InKeyRange(i, n)} = {}
                      => /\ i \notin ev'.started
                         /\ regions'[i].sample = regions[i].sample
          /\ At(TriggerFirstScript) = 3
                => ~SampleIsPlaying(regions'[i].sample)]_vars

C11_Witness ==
    /\ ev.op = "midi_event"
    /\ ev.msg = NoteOnMsg(60, 127)
    /\ params[1].trigger = "Legato"
    /\ 1 \in ev.started
    /\ regions[1].other_notes_on = {57}
    /\ 57 \in hist.held
    /\ is_playing_note(regions[1].sample, 60)

----------------------------------------------------------------------------
(* C12: trigger=First and the keys that are held *)

\* C12: a region with trigger First starts a voice at a NoteOn only when no
\* other note, inside or outside its key range, is held (has received a
\* NoteOn and no NoteOff since).
C12_FirstNoOtherKeyHeld ==
    [][\A i \in Regs :
          (params[i].trigger = "First" /\ Midi("NoteOn") /\ i \in ev'.started)
              => hist.held \ {ev'.msg.note} = {}]_vars

----------------------------------------------------------------------------
(* Instruments with random ranges and controller triggers.  Draws and the  *)
(* endpoints of random ranges are in hundredths.                           *)

\* tests::trigger_rand (lorand=0.0 hirand=0.5 and lorand=0.5 hirand=1.0 on
\* the same key), with a velocity range and a controller trigger on both
\* regions.
RandRegion(lo, hi) ==
    [DefaultRegionData EXCEPT !.key_range = [lo |-> 60, hi |-> 60],
                              !.vel_range = [lo |-> 60, hi |-> 127],
                              !.random_range = [lo |-> lo, hi |-> hi],
                              !.on_ccs = (1 :> [lo |-> 10, hi |-> 20])]

RandomSetup ==
    [params |-> <<RandRegion(0, 50), RandRegion(50, 100)>>,
     inputs |-> [notes |-> {57, 60}, vels |-> {30, 127},
                 ccs |-> {<<1, 15>>, <<1, 21>>}, rands |-> {49, 50},
                 scripted |-> FALSE],
     script |-> <<>>]

\* tests::region_trigger_cc: a range with both endpoints on controller 64,
\* a range with one endpoint on another controller; here also a range on
\* controller 1, on a region whose key and velocity ranges hold neither
\* pitch_keycenter nor the maximum velocity.
CcRegion(t) ==
    [DefaultRegionData EXCEPT !.key_range = [lo |-> 62, hi |-> 62],
                              !.vel_range = [lo |-> 1, hi |-> 63],
                              !.trigger = t,
                              !.on_ccs = (1 :> [lo |-> 10, hi |-> 20])
                                         @@ (42 :> [lo |-> None, hi |-> 23])
                                         @@ (64 :> [lo |-> 63, hi |-> 127])]

CcSetup(t) ==
    [params |-> <<CcRegion(t)>>,
     inputs |-> [notes |-> {62}, vels |-> {63},
                 ccs |-> {<<1, 9>>, <<1, 10>>, <<1, 20>>, <<1, 21>>,
                          <<23, 90>>, <<42, 21>>, <<64, 23>>, <<64, 63>>,
                          <<64, 90>>},
                 rands |-> {0}, scripted |-> FALSE],
     script |-> <<>>]

InitGate == InitWith({RandomSetup} \cup {CcSetup(t) : t \in Triggers})

SpecGate == InitGate /\ [][Next]_vars

----------------------------------------------------------------------------
(* C13: the shared random draw *)

\* Regions i and j differ in their random ranges only, and these tile
\* [0, 1): [0, m) and [m, 1).
Tiling(i, j) ==
    /\ [params[i] EXCEPT !.random_range = params[j].random_range] = params[j]
    /\ params[i].random_range.lo = 0
    /\ params[i].random_range.lo < params[i].random_range.hi
    /\ params[i].random_range.hi = params[j].random_range.lo
    /\ params[j].random_range.lo < params[j].random_range.hi
    /\ params[j].random_range.hi = 100

\* The message of the step satisfies the trigger conditions of region i,
\* the draw apart.
Triggers_(i) ==
    \/ /\ Midi("NoteOn")
       /\ params[i].trigger = "Attack"
       /\ InKeyRange(i, ev'.msg.note)
       /\ InVelRange(i, ev'.msg.vel)
    \/ /\ Midi("ControlChange")
       /\ ev'.msg.cnum \in DOMAIN params[i].on_ccs
       /\ ControlValRangeCovering(params[i].on_ccs[ev'.msg.cnum],
                                  ev'.msg.cval)

\* C13: of two regions whose random ranges tile [0, 1) and that are alike
\* otherwise, every NoteOn in range and every ControlChange matching on_ccs
\* fires exactly one, the one whose range holds the draw of the event.
C13_SharedDrawSelectsOne ==
    [][\A i, j \in Regs :
          (Tiling(i, j) /\ Triggers_(i)) =>
              /\ Cardinality(ev'.fired \cap {i, j}) = 1
              /\ ev'.fired \cap {i, j} =
                    {k \in {i, j} : /\ ev'.rnd >= params[k].random_range.lo
                                    /\ ev'.rnd < params[k].random_range.hi}
              /\ ev'.started \cap {i, j} = ev'.fired \cap {i, j}]_vars

----------------------------------------------------------------------------
(* C14: the gates of a NoteOn *)

NoteOnPasses(i) ==
    /\ InKeyRange(i, ev'.msg.note)
    /\ InVelRange(i, ev'.msg.vel)
    /\ Drawn(i)

\* C14: at a NoteOn a region with trigger Attack starts a voice, of the note
\* and with the gain of the velocity, if and only if the note is in the key
\* range, the velocity in the velocity range and the draw covered by the
\* random range; otherwise its voices are as they were and pass_midi_msg
\* returns false.
C14_NoteOnGating ==
    [][\A i \in Regs : (params[i].trigger = "Attack" /\ Midi("NoteOn")) =>
          /\ i \in ev'.started <=> NoteOnPasses(i)
          /\ i \in ev'.fired <=> NoteOnPasses(i)
          /\ IF NoteOnPasses(i)
             THEN StartedVoice(i, ev'.msg.note, ev'.msg.vel)
             ELSE regions'[i].sample = regions[i].sample]_vars

C14_Witness ==
    /\ ev.op = "midi_event"
    /\ ev.msg = NoteOnMsg(60, 127)
    /\ ev.rnd = 50
    /\ params = RandomSetup.params
    /\ ev.started = {2}
    /\ ev.fired = {2}
    /\ regions[1].sample = <<>>
    /\ is_playing_note(regions[2].sample, 60)

----------------------------------------------------------------------------
(* C15: a NoteOff outside the key range *)

\* C15: a NoteOff of a note outside the key range of a region takes the note
\* out of other_notes_on and changes nothing else of the region: its voices
\* (none is released, none is started, whatever the trigger and
\* last_note_on), the pending-release set and last_note_on are as they were,
\* and pass_midi_msg returns false.
C15_NoteOffOutOfRange ==
    [][\A i \in Regs :
          (Midi("NoteOff") /\ ~InKeyRange(i, ev'.msg.note)) =>
              /\ regions'[i].other_notes_on
                    = regions[i].other_notes_on \ {ev'.msg.note}
              /\ regions'[i].sample = regions[i].sample
              /\ regions'[i].notes_for_release_trigger
                    = regions[i].notes_for_release_trigger
              /\ regions'[i].last_note_on = regions[i].last_note_on
              /\ regions'[i].sustain_pedal_pushed
                    = regions[i].sustain_pedal_pushed
              /\ i \notin ev'.fired
              /\ i \notin ev'.started]_vars

C15_Witness ==
    /\ ev.op = "midi_event"
    /\ ev.msg = NoteOffMsg(57)
    /\ ReleaseTriggered(1)
    /\ regions[1].last_note_on # <<>>
    /\ regions[1].sample = <<>>
    /\ hist.pedal
    /\ ev.fired = {}

----------------------------------------------------------------------------
(* C16: the controller trigger *)

CcMatches(i) ==
    /\ ev'.msg.cnum \in DOMAIN params[i].on_ccs
    /\ params[i].on_ccs[ev'.msg.cnum].lo # None
    /\ params[i].on_ccs[ev'.msg.cnum].hi # None
    /\ params[i].on_ccs[ev'.msg.cnum].lo <= ev'.msg.cval
    /\ ev'.msg.cval <= params[i].on_ccs[ev'.msg.cnum].hi

\* The release of the pedal that starts the voice of a Release region.
PedalFires(i) ==
    /\ params[i].trigger = "Release"
    /\ ev'.msg.cnum = 64
    /\ ev'.msg.cval < 64
    /\ regions[i].last_note_on # <<>>

----------------------------------------------------------------------------
(* C17: fadeout *)

\* C17: Engine::fadeout, whatever came before it and whether or not the
\* sustain pedal is pushed, leaves every region without a non-releasing
\* voice: each voice that was sounding is still there and is releasing.
C17_FadeoutReleasesAll ==
    [][ev'.op = "fadeout" =>
          \A i \in Regs :
              /\ Len(regions'[i].sample) = Len(regions[i].sample)
              /\ \A k \in DOMAIN regions[i].sample :
                    /\ regions'[i].sample[k].note = regions[i].sample[k].note
                    /\ regions'[i].sample[k].phase
                          = regions[i].sample[k].phase
                    /\ regions'[i].sample[k].releasing
              /\ \A note \in inputs.notes :
                    ~is_playing_note(regions'[i].sample, note)]_vars

C17_Witness ==
    /\ ev.op = "fadeout"
    /\ hist.pedal
    /\ regions[1].sustain_pedal_pushed
    /\ Sustaining(1)
    /\ Len(regions[1].sample) = 2
    /\ \A k \in DOMAIN regions[1].sample :
          /\ regions[1].sample[k].releasing
          /\ regions[1].sample[k].note \in hist.held

----------------------------------------------------------------------------
(* An instrument with a release tail, and a host that keeps calling process *)

\* tests::engine_fade_out has one region with ampeg_release set; here it has
\* a release tail of two samples, and a second region without a tail sounds
\* with it.
FadeRegion(release) ==
    [DefaultRegionData EXCEPT !.ampeg_release = release, !.sample_len = 6]

FadeScript ==
    <<On(60, 127), Block, Step("fadeout", NoMsg, 0), Block>>

FadeSetup ==
    [params |-> <<FadeRegion(2), FadeRegion(0)>>,
     inputs |-> [notes |-> {60}, vels |-> {127},
                 ccs |-> {<<64, 63>>, <<64, 64>>}, rands |-> {0},
                 scripted |-> FALSE],
     script |-> <<FadeScript>>]

InitFade == InitWith({FadeSetup})

ProcessNonEmpty == Process /\ ev'.n > 0

\* The audio callback keeps being called with non-empty buffers.
SpecFade == InitFade /\ [][Next]_vars /\ WF_vars(ProcessNonEmpty)

----------------------------------------------------------------------------
(* C18: the fade-out completes *)

NoVoiceLeft ==
    \A i \in Regs : \A note \in inputs.notes :
        /\ ~is_playing_note(regions[i].sample, note)
        /\ ~is_releasing_note(regions[i].sample, note)

\* C18: after Engine::fadeout, unless a further MIDI event arrives,
\* fadeout_finished() becomes true; once true it stays true at every
\* operation that is not a MIDI event; and it is true exactly when no region
\* has a voice playing or releasing, so false while a release tail sounds.
C18_FadeoutCompletes ==
    /\ (ev.op = "fadeout") ~> (fadeout_finished \/ ev.op = "midi_event")
    /\ [][(fadeout_finished /\ ev'.op # "midi_event")
             => fadeout_finished']_vars
    /\ [](fadeout_finished <=> NoVoiceLeft)

C18_Witness ==
    /\ Progress(FadeScript) = 4
    /\ ~fadeout_finished
    /\ is_releasing_note(regions[1].sample, 60)
    /\ regions[2].sample = <<>>

----------------------------------------------------------------------------
(* Instruments with regions of group 0 *)

\* A region without group and off_by beside a region of group 1.
ZeroGroupParams == <<KeyRegion(60, 0, 0), KeyRegion(62, 1, 0)>>

ZeroGroupSetup ==
    [params |-> ZeroGroupParams,
     inputs |-> [notes |-> {60, 62}, vels |-> {127},
                 ccs |-> {<<64, 63>>, <<64, 64>>}, rands |-> {0},
                 scripted |-> FALSE],
     script |-> <<>>]

InitZeroGroup == InitWith({RegionGroupSetup, ZeroGroupSetup})

SpecZeroGroup == InitZeroGroup /\ [][Next]_vars

----------------------------------------------------------------------------
(* C19: group 0 *)

\* Voice k of region q is sent to its release in this step.
Released(q, k) ==
    /\ ~regions[q].sample[k].releasing
    /\ k \in DOMAIN regions'[q].sample
    /\ regions'[q].sample[k].releasing

\* The message itself releases voice k of region q: a NoteOn that starts a
\* voice of the same note, the NoteOff of its note, the release of the pedal.
OwnRelease(q, k) ==
    \/ /\ Midi("NoteOn")
       /\ q \in ev'.started
       /\ regions[q].sample[k].note = ev'.msg.note
    \/ /\ Midi("NoteOff")
       /\ regions[q].sample[k].note = ev'.msg.note
    \/ PedalReleased

----------------------------------------------------------------------------
(* The setters of the integer ranges.  The result of a setter is the range *)
(* it leaves and "Ok" or the kind of its RangeError.                       *)

\* v as u8
AsU8(v) == v % 256

\* The data bytes wmidi accepts for a Velocity, a Note and a ControlValue.
IsU7(b) == b <= 127

VelRangeSetHi(range, v) ==
    LET vel == AsU8(v)
    IN IF ~IsU7(vel) THEN [range |-> range, result |-> "out_of_range"]
       ELSE IF vel < range.lo
       THEN [range |-> range, result |-> "flipped_range"]
       ELSE [range |-> [range EXCEPT !.hi = vel], result |-> "Ok"]

\* VelRange::set_lo storing the value in hi.
VelRangeSetLo_storing_hi(range, v) ==
    LET vel == AsU8(v)
    IN IF ~IsU7(vel) THEN [range |-> range, result |-> "out_of_range"]
       ELSE IF vel > range.hi
       THEN [range |-> range, result |-> "flipped_range"]
       ELSE [range |-> [range EXCEPT !.hi = vel], result |-> "Ok"]

VelRangeSetLo(range, v) ==
    LET vel == AsU8(v)
    IN IF ~IsU7(vel) THEN [range |-> range, result |-> "out_of_range"]
       ELSE IF vel > range.hi
       THEN [range |-> range, result |-> "flipped_range"]
       ELSE [range |-> [range EXCEPT !.lo = vel], result |-> "Ok"]

\* NoteRange::set_hi without the test against lo.
NoteRangeSetHi_unchecked(range, v) ==
    LET note == AsU8(v)
    IN IF v = -1 THEN [range |-> [range EXCEPT !.hi = None], result |-> "Ok"]
       ELSE IF ~IsU7(note) THEN [range |-> range, result |-> "out_of_range"]
       ELSE [range |-> [range EXCEPT !.hi = note], result |-> "Ok"]

NoteRangeSetHi(range, v) ==
    LET note == AsU8(v)
    IN IF v = -1 THEN [range |-> [range EXCEPT !.hi = None], result |-> "Ok"]
       ELSE IF ~IsU7(note) THEN [range |-> range, result |-> "out_of_range"]
       ELSE IF range.lo # None /\ note < range.lo
       THEN [range |-> range, result |-> "flipped_range"]
       ELSE [range |-> [range EXCEPT !.hi = note], result |-> "Ok"]

NoteRangeSetLo(range, v) ==
    LET note == AsU8(v)
    IN IF v = -1 THEN [range |-> [range EXCEPT !.lo = None], result |-> "Ok"]
       ELSE IF ~IsU7(note) THEN [range |-> range, result |-> "out_of_range"]
       ELSE IF range.hi # None /\ note > range.hi
       THEN [range |-> range, result |-> "flipped_range"]
       ELSE [range |-> [range EXCEPT !.lo = note], result |-> "Ok"]

ControlValRangeSetHi(range, v) ==
    LET val == AsU8(v)
    IN IF v < 0 THEN [range |-> [range EXCEPT !.hi = None], result |-> "Ok"]
       ELSE IF ~IsU7(val) THEN [range |-> range, result |-> "out_of_range"]
       ELSE IF range.lo # None /\ val < range.lo
       THEN [range |-> range, result |-> "flipped_range"]
       ELSE [range |-> [range EXCEPT !.hi = val], result |-> "Ok"]

ControlValRangeSetLo(range, v) ==
    LET val == AsU8(v)
    IN IF v < 0 THEN [range |-> [range EXCEPT !.lo = None], result |-> "Ok"]
       ELSE IF ~IsU7(val) THEN [range |-> range, result |-> "out_of_range"]
       ELSE IF range.hi # None /\ val > range.hi
       THEN [range |-> range, result |-> "flipped_range"]
       ELSE [range |-> [range EXCEPT !.lo = val], result |-> "Ok"]

\* The region data being built: vel_range and key_range start from their
\* defaults, the range of controller 1 from ControlValRange { hi: None,
\* lo: None }.
RangeParams ==
    <<[DefaultRegionData EXCEPT !.on_ccs = (1 :> [lo |-> None, hi |-> None])]>>

RangeSetup ==
    [params |-> RangeParams,
     inputs |-> [notes |-> {}, vels |-> {}, ccs |-> {}, rands |-> {},
                 scripted |-> FALSE],
     script |-> <<>>]

\* The values handed to the setters: the ends of the domain, values inside
\* it, -1 and -2, and values that do not fit the byte they are cast to.
RangeInputs == {-2, -1, 0, 1, 127, 128, 257}

RangeCall(op, range, v, result) ==
    [op |-> op, range |-> range, v |-> v, result |-> result]

SetVel(op, v) ==
    LET res == IF op = "set_lo" THEN VelRangeSetLo(params[1].vel_range, v)
               ELSE VelRangeSetHi(params[1].vel_range, v)
    IN /\ params' = [params EXCEPT ![1].vel_range = res.range]
       /\ ev' = RangeCall(op, "vel_range", v, res.result)

SetKey(op, v) ==
    LET res == IF op = "set_lo" THEN NoteRangeSetLo(params[1].key_range, v)
               ELSE NoteRangeSetHi(params[1].key_range, v)
    IN /\ params' = [params EXCEPT ![1].key_range = res.range]
       /\ ev' = RangeCall(op, "key_range", v, res.result)

SetCc(op, v) ==
    LET res == IF op = "set_lo"
               THEN ControlValRangeSetLo(params[1].on_ccs[1], v)
               ELSE ControlValRangeSetHi(params[1].on_ccs[1], v)
    IN /\ params' = [params EXCEPT ![1].on_ccs[1] = res.range]
       /\ ev' = RangeCall(op, "on_ccs", v, res.result)

SetLo ==
    /\ \E v \in RangeInputs :
          SetVel("set_lo", v) \/ SetKey("set_lo", v) \/ SetCc("set_lo", v)
    /\ UNCHANGED <<inputs, regions, hist, script, scn>>

SetHi ==
    /\ \E v \in RangeInputs :
          SetVel("set_hi", v) \/ SetKey("set_hi", v) \/ SetCc("set_hi", v)
    /\ UNCHANGED <<inputs, regions, hist, script, scn>>

NextRange ==
    \/ SetLo
    \/ SetHi

InitRange == InitWith({RangeSetup})

SpecRange == InitRange /\ [][NextRange]_vars

----------------------------------------------------------------------------
(* C20: ordered integer ranges *)

Ordered(range) ==
    (range.lo # None /\ range.hi # None) => range.lo <= range.hi

RangeOf(p, name) ==
    CASE name = "vel_range" -> p.vel_range
      [] name = "key_range" -> p.key_range
      [] name = "on_ccs" -> p.on_ccs[1]

\* The call of the step hands over a value of the domain that lies beyond
\* the other endpoint of its range.
WouldFlip ==
    LET range == RangeOf(params[1], ev'.range)
        b == ev'.v % 256
    IN /\ ev'.v >= 0
       /\ b <= 127
       /\ IF ev'.op = "set_lo" THEN range.hi # None /\ b > range.hi
          ELSE range.lo # None /\ b < range.lo

\* C20: the velocity, note and controller-value ranges have lo <= hi whenever
\* both endpoints are there, after every sequence of set_lo and set_hi from
\* the default; a call that would put lo above hi returns the flipped-range
\* error, and a call that returns an error leaves the ranges as they were.
C20_OrderedRanges ==
    /\ [](/\ Ordered(params[1].vel_range)
          /\ Ordered(params[1].key_range)
          /\ Ordered(params[1].on_ccs[1]))
    /\ [][/\ WouldFlip => ev'.result = "flipped_range"
          /\ ev'.result = "flipped_range" => WouldFlip
          /\ ev'.result # "Ok" => params' = params]_vars

C20_Witness ==
    /\ ev = RangeCall("set_lo", "key_range", 127, "flipped_range")
    /\ params[1].key_range = [lo |-> 0, hi |-> 1]

----------------------------------------------------------------------------
(* The setters of RandomRange, and a host that builds one range at a time. *)
(* Random values are in hundredths.                                        *)

RandomRangeSetHi(range, v) ==
    IF v < 0 /\ v > 100 THEN [range |-> range, result |-> "out_of_range"]
    ELSE IF v < range.lo /\ range.lo > 0
    THEN [range |-> range, result |-> "flipped_range"]
    ELSE [range |-> [range EXCEPT !.hi = v], result |-> "Ok"]

RandomRangeSetLo(range, v) ==
    IF v < 0 /\ v > 100 THEN [range |-> range, result |-> "out_of_range"]
    ELSE IF v > range.hi /\ range.hi > 0
    THEN [range |-> range, result |-> "flipped_range"]
    ELSE [range |-> [range EXCEPT !.lo = v], result |-> "Ok"]

\* The values handed to the setters of RandomRange: the ends of [0, 1],
\* values inside it and values outside it.
RandomInputs == {-50, 0, 25, 50, 100, 150}

RangeNames == {"vel_range", "key_range", "on_ccs", "random_range"}

EachRangeSetup(name) ==
    [params |-> RangeParams,
     inputs |-> [notes |-> {}, vels |-> {}, ccs |-> {}, rands |-> {},
                 scripted |-> FALSE, range |-> name],
     script |-> <<>>]

SetRandom(op, v) ==
    LET res == IF op = "set_lo"
               THEN RandomRangeSetLo(params[1].random_range, v)
               ELSE RandomRangeSetHi(params[1].random_range, v)
    IN /\ params' = [params EXCEPT ![1].random_range = res.range]
       /\ ev' = RangeCall(op, "random_range", v, res.result)

SetOne(op) ==
    /\ \/ inputs.range = "vel_range" /\ \E v \in RangeInputs : SetVel(op, v)
       \/ inputs.range = "key_range" /\ \E v \in RangeInputs : SetKey(op, v)
       \/ inputs.range = "on_ccs" /\ \E v \in RangeInputs : SetCc(op, v)
       \/ inputs.range = "random_range"
          /\ \E v \in RandomInputs : SetRandom(op, v)
    /\ UNCHANGED <<inputs, regions, hist, script, scn>>

SetOneLo == SetOne("set_lo")

SetOneHi == SetOne("set_hi")

NextEachRange ==
    \/ SetOneLo
    \/ SetOneHi

InitEachRange == InitWith({EachRangeSetup(name) : name \in RangeNames})

SpecEachRange == InitEachRange /\ [][NextEachRange]_vars

----------------------------------------------------------------------------
(* C21: ordered random range *)

\* The call of the step hands a RandomRange a value beyond its other
\* endpoint.
WouldFlipRandom ==
    IF ev'.op = "set_lo" THEN ev'.v > params[1].random_range.hi
    ELSE ev'.v < params[1].random_range.lo

\* C21: starting from lo = hi = 0, every successful set_lo / set_hi of a
\* RandomRange leaves lo <= hi, and a call that would put lo above hi fails
\* and leaves the range unchanged.
C21_OrderedRandomRange ==
    [][ev'.range = "random_range" =>
          /\ ev'.result = "Ok" =>
                params'[1].random_range.lo <= params'[1].random_range.hi
          /\ WouldFlipRandom =>
                /\ ev'.result # "Ok"
                /\ params'[1].random_range = params[1].random_range]_vars

----------------------------------------------------------------------------
(* C22: out-of-range endpoints *)

\* The value that takes an endpoint away: -1 for a NoteRange, every negative
\* value for a ControlValRange, none for a VelRange.
Disabling(name, v) ==
    CASE name = "vel_range" -> FALSE
      [] name = "key_range" -> v = -1
      [] name = "on_ccs" -> v < 0

OutOfDomain(name, v) ==
    v > 127 \/ (v < 0 /\ ~Disabling(name, v))

\* C22: set_lo / set_hi of a VelRange, a NoteRange or a ControlValRange with
\* a value above 127, or with a negative value that is not a disabling one,
\* returns the out-of-range error and leaves the range unchanged.
C22_OutOfRangeRejected ==
    [][OutOfDomain(ev'.range, ev'.v) =>
          /\ ev'.result = "out_of_range"
          /\ params' = params]_vars

----------------------------------------------------------------------------
(* C23: covering is monotonic *)

Covers(p, name, x) ==
    CASE name = "vel_range" -> VelRangeCovering(p.vel_range, x)
      [] name = "key_range" -> NoteRangeCovering(p.key_range, x)
      [] name = "on_ccs" -> ControlValRangeCovering(p.on_ccs[1], x)
      [] name = "random_range" -> RandomRangeCovering(p.random_range, x)

EndsOf(p, name) ==
    IF name = "random_range" THEN p.random_range ELSE RangeOf(p, name)

\* The values whose covering is observed.
Points(name) ==
    IF name = "random_range" THEN {0, 25, 49, 50, 75, 99} ELSE {0, 1, 64, 127}

\* The step is a successful set_lo that does not raise lo, or a successful
\* set_hi that does not lower hi; the endpoint it sets is there afterwards.
Widened ==
    LET old == EndsOf(params[1], ev'.range)
        new == EndsOf(params'[1], ev'.range)
    IN /\ ev'.result = "Ok"
       /\ IF ev'.op = "set_lo"
          THEN old.lo # None /\ new.lo # None /\ new.lo <= old.lo
          ELSE old.hi # None /\ new.hi # None /\ new.hi >= old.hi

StaysCovered(x) ==
    (Covers(params[1], ev'.range, x) /\ Widened)
        => Covers(params'[1], ev'.range, x)

\* covering is monotonic for every range type: a value a range covers is
\* still covered after a successful set_lo that lowers lo or set_hi that
\* raises hi.
C23_Original ==
    [][\A x \in Points(ev'.range) : StaysCovered(x)]_vars

\* C23: covering is monotonic for VelRange, NoteRange and ControlValRange,
\* and for a RandomRange with lo < hi: a value the range covers is still
\* covered after a successful set_lo that lowers lo or set_hi that raises hi.
\* (A RandomRange with lo = hi covers every draw, and stops doing so when
\* an endpoint moves.)
C23_CoveringMonotonic ==
    [][\A x \in Points(ev'.range) :
          (ev'.range = "random_range"
              => params[1].random_range.lo < params[1].random_range.hi)
          => StaysCovered(x)]_vars

C23_Witness ==
    /\ ev = RangeCall("set_lo", "random_range", 0, "Ok")
    /\ params[1].random_range = [lo |-> 0, hi |-> 50]

----------------------------------------------------------------------------
(* C24: unsupported messages *)

\* C24: a message that is not NoteOn, NoteOff or ControlChange leaves the
\* voices, last_note_on, other_notes_on, the notes kept for the release
\* trigger, the sustain pedal state, time_since_note_on and the gain of every
\* region unchanged, fires no region and activates no group.
C24_OtherMessageIgnored ==
    [][Midi("Other") =>
          /\ \A i \in Regs :
                regions'[i] =
                    [regions[i] EXCEPT
                        !.once_immune_against_group_events = FALSE]
          /\ ev'.fired = {}
          /\ ev'.started = {}
          /\ ActivatedGroups(Passed(ev'.msg, ev'.rnd)) = {}]_vars

C24_Witness ==
    /\ ev.op = "midi_event"
    /\ ev.msg.type = "Other"
    /\ Playing(1)
    /\ regions[1].sustain_pedal_pushed
    /\ regions[1].last_note_on # <<>>

----------------------------------------------------------------------------
(* Instruments with rt_decay: the region of tests::trigger_release_rt_decay *)
(* (rt_decay=3 at a host samplerate of 1.0, that is 300 hundredths of a dB *)
(* for every sample processed), with trigger=release and with              *)
(* trigger=release_key.                                                    *)

DecayRegion(t) ==
    [DefaultRegionData EXCEPT !.trigger = t, !.rt_decay = 300]

\* A note held for one sample from the start, a note held for one sample
\* after a block was processed, and the note of the test held for two
\* samples after an earlier note.
HeldFromStartScript == <<On(60, 127), Block, Off(60)>>

HeldAfterBlockScript == <<Block, On(60, 127), Block, Off(60)>>

HeldAfterNoteScript ==
    <<On(60, 127), Off(60), On(60, 127), Block, Block, Off(60)>>

DecayScripts ==
    <<HeldFromStartScript, HeldAfterBlockScript, HeldAfterNoteScript>>

DecaySetup(t) ==
    [params |-> <<DecayRegion(t)>>,
     inputs |-> [notes |-> {60}, vels |-> {127},
                 ccs |-> {<<64, 63>>, <<64, 64>>}, rands |-> {0},
                 scripted |-> FALSE],
     script |-> DecayScripts]

InitDecay == InitWith({DecaySetup(t) : t \in {"Release", "ReleaseKey"}})

SpecDecay == InitDecay /\ [][Next]_vars

----------------------------------------------------------------------------
(* C25: rt_decay *)

\* The samples processed between the last NoteOn and the NoteOff that ends
\* each of the scenarios.
HeldTime == <<1, 1, 2>>

\* C25: when a Release / ReleaseKey region fires on the NoteOff that ends one
\* of the scenarios, the gain of the voice it starts is, in dB, minus
\* rt_decay times the time processed between the NoteOn of the note and that
\* NoteOff, also when time was processed before the NoteOn.
C25_RtDecayHeldTime ==
    [][\A j \in DOMAIN DecayScripts :
          At(DecayScripts[j]) = Len(DecayScripts[j]) =>
              /\ 1 \in ev'.started
              /\ Youngest(regions'[1].sample).gain
                    = 0 - params[1].rt_decay * HeldTime[j]]_vars

----------------------------------------------------------------------------
(* An instrument whose regions share a key, as those of tests::trigger_rand, *)
(* and belong to groups: the draw chooses between the first two regions,    *)
(* the third fires at every draw, and an event may activate two groups.     *)

DrawnGroupParams ==
    <<[KeyRegion(60, 1, 0) EXCEPT !.random_range = [lo |-> 0, hi |-> 50]],
      [KeyRegion(60, 2, 0) EXCEPT !.random_range = [lo |-> 50, hi |-> 100]],
      KeyRegion(60, 2, 0)>>

DrawnGroupSetup ==
    [params |-> DrawnGroupParams,
     inputs |-> [notes |-> {60}, vels |-> {127}, ccs |-> {<<64, 64>>},
                 rands |-> {49, 50}, scripted |-> FALSE],
     script |-> <<>>]

InitDrawnGroup == InitWith({DrawnGroupSetup})

SpecDrawnGroup == InitDrawnGroup /\ [][Next]_vars

----------------------------------------------------------------------------
(* C26: determinism *)

\* The states of the regions an engine may be in after a MIDI message with a
\* given draw, whatever the order in which the activated groups are handed
\* out.
AfterEvent(msg, r) ==
    {Broadcast(AfterPass(Passed(msg, r)), order) :
        order \in Orders(ActivatedGroups(Passed(msg, r)))}

\* Two engines in the same state that are given the same MIDI message are in
\* the same state afterwards.
C26_Original ==
    [][ev'.op = "midi_event" =>
          \A r \in inputs.rands : AfterEvent(ev'.msg, r) = {regions'}]_vars

\* C26: two engines in the same state that are given the same MIDI message
\* and whose random draws for the message are equal are in the same state
\* afterwards, with the same voices playing and releasing.
C26_DeterministicGivenDraw ==
    [][ev'.op = "midi_event" =>
          AfterEvent(ev'.msg, ev'.rnd) = {regions'}]_vars

C26_Witness ==
    /\ ev.op = "midi_event"
    /\ ev.rnd = 49
    /\ ev.fired = {1, 3}
    /\ regions[2].sample # <<>>
    /\ AllReleasing(2)

----------------------------------------------------------------------------
(* C27: block-size independence *)

\* The regions after Engine::process with buffers of n samples.
Processed(regs, n) ==
    IF n * n = 0 THEN regs
    ELSE [i \in Regs |-> RegionProcess(params[i], regs[i], n)]

\* C27: in every state the engine reaches, processing n1 samples and then
\* n2 samples, with no MIDI event in between, leaves every region in the
\* state (time_since_note_on, voices with their positions, playing and
\* releasing) that processing n1 + n2 samples in one call leaves; so a
\* later release gets the same rt_decay penalty.
C27_BlockSizeIndependence ==
    \A n1, n2 \in 0..MaxBlock :
        /\ Processed(Processed(regions, n1), n2) = Processed(regions, n1 + n2)
        /\ \A i \in Regs :
              handle_note_off(params[i],
                              Processed(Processed(regions, n1), n2)[i], 60).r
              = handle_note_off(params[i],
                                Processed(regions, n1 + n2)[i], 60).r

C27_Witness ==
    /\ ev.op = "process"
    /\ ev.n = 1
    /\ regions[1].last_note_on = <<60, 127>>
    /\ regions[1].time_since_note_on = 1
    /\ regions[1].sample # <<>>
    /\ Youngest(regions[1].sample).phase = 1

----------------------------------------------------------------------------
(* C28: no stuck notes without the pedal *)

NonReleasing(voices, note) ==
    {k \in DOMAIN voices : voices[k].note = note /\ ~voices[k].releasing}

\* C28: a region with trigger=Attack holds at most one non-releasing voice
\* per note; a NoteOn of a note of the region that starts a voice leaves the
\* note playing, also while an older voice of the note is releasing; and
\* after a NoteOff of note N received while the sustain pedal is not pushed
\* (as it is when it was never pushed) the region has no non-releasing voice
\* of N.
C28_NoStuckNotes ==
    /\ [](\A i \in Regs : \A note \in inputs.notes :
             params[i].trigger = "Attack"
                => Cardinality(NonReleasing(regions[i].sample, note)) <= 1)
    /\ [][\A i \in Regs :
             /\ (/\ params[i].trigger = "Attack"
                 /\ Midi("NoteOn")
                 /\ InKeyRange(i, ev'.msg.note)
                 /\ InVelRange(i, ev'.msg.vel)
                 /\ Drawn(i))
                => is_playing_note(regions'[i].sample, ev'.msg.note)
             /\ (/\ params[i].trigger = "Attack"
                 /\ Midi("NoteOff")
                 /\ ~hist.pedal)
                => ~is_playing_note(regions'[i].sample, ev'.msg.note)]_vars

\* A note with two voices, the older one released by the second NoteOn and
\* the younger one by the NoteOff.
C28_Witness ==
    /\ params[1].trigger = "Attack"
    /\ ev.op = "midi_event"
    /\ ev.msg = NoteOffMsg(60)
    /\ ~regions[1].sustain_pedal_pushed
    /\ Len(regions[1].sample) = 2
    /\ \A k \in 1..2 : /\ regions[1].sample[k].note = 60
                       /\ regions[1].sample[k].releasing

----------------------------------------------------------------------------
(* C29: every voice ends *)

\* C29: no voice is left at or beyond the end of its sample, whether or not
\* a NoteOff was received; and when process keeps being called with
\* non-empty buffers, voices that sound after an operation other than a MIDI
\* event are all gone at some later time, unless a MIDI event arrives.
C29_EveryVoiceEnds ==
    /\ [](\A i \in Regs : \A k \in DOMAIN regions[i].sample :
             regions[i].sample[k].phase < params[i].sample_len)
    /\ (Sounding # {} /\ ev.op # "midi_event")
          ~> (Sounding = {} \/ ev.op = "midi_event")

\* The note is still held (its NoteOff has not arrived), the pedal is not
\* pushed, and after a block no voice is left.
C29_Witness ==
    /\ ev.op = "process"
    /\ hist.held = {60}
    /\ ~regions[1].sustain_pedal_pushed
    /\ regions[1].time_since_note_on = MaxTime
    /\ Sounding = {}

----------------------------------------------------------------------------
(* C30: the real-time contract *)

\* Engine::midi_event collects the activated groups in a HashSet it creates
\* with HashSet::new(), which has no storage: the first group inserted
\* allocates it on the heap.
MidiEventAllocates(msg, random_value) ==
    ActivatedGroups(Passed(msg, random_value)) # {}

\* C30: Engine::midi_event performs no heap allocation.
C30_NoAllocation ==
    [][ev'.op = "midi_event" => ~MidiEventAllocates(ev'.msg, ev'.rnd)]_vars

----------------------------------------------------------------------------
(* C31: every firing region reports its group *)

\* C31: whenever a region with a group g > 0 starts a voice in a MIDI event,
\* by a NoteOn, a NoteOff, a matching ControlChange or the release of the
\* sustain pedal, g is among the groups broadcast for the event and the
\* region is immune for the event.
C31_FiringReportsGroup ==
    [][ev'.op = "midi_event" =>
          \A i \in ev'.started :
              params[i].group > 0 =>
                  /\ params[i].group
                        \in ActivatedGroups(Passed(ev'.msg, ev'.rnd))
                  /\ regions'[i].once_immune_against_group_events]_vars

----------------------------------------------------------------------------
(* C32: other_notes_on *)

HeldOutOfRange(i) ==
    {note \in hist.held : ~NoteRangeCovering(params[i].key_range, note)}

\* C32: in every state, other_notes_on of a region is the set of the notes
\* outside its key range whose NoteOn was received without a later NoteOff,
\* whatever the random draws and the random range.
C32_OtherNotesOnTracksHeld ==
    \A i \in Regs : regions[i].other_notes_on = HeldOutOfRange(i)

----------------------------------------------------------------------------
(* C33: the pedal acts on a push-to-release transition *)

\* C33: a CC64 with a value below 64 received while the pedal of a region is
\* not pushed starts no voice and releases no voice of the region, for every
\* trigger, also when last_note_on is set.
C33_PedalReleaseNeedsPush ==
    [][\A i \in Regs :
          (PedalReleased /\ ~regions[i].sustain_pedal_pushed)
              => regions'[i].sample = regions[i].sample]_vars

----------------------------------------------------------------------------
(* C34: a note-on that does not match does not arm a release region *)

\* C34: in a Release / ReleaseKey region, the NoteOff of note N that follows
\* a NoteOn of N with a velocity outside the velocity range starts no voice,
\* whatever happened earlier.
C34_UnmatchedNoteOnDoesNotArm ==
    [][\A i \in Regs :
          (/\ ReleaseTriggered(i)
           /\ Midi("NoteOff")
           /\ ev.op = "midi_event"
           /\ ev.msg.type = "NoteOn"
           /\ ev.msg.note = ev'.msg.note
           /\ ~InVelRange(i, ev.msg.vel))
          => i \notin ev'.started]_vars

----------------------------------------------------------------------------
(* C35: the pending-release set of a release region *)

\* C35: the set of notes kept for the pedal release
\* (notes_for_release_trigger) of a Release / ReleaseKey region is empty in
\* every state; so after a NoteOn handled by such a region the note is not
\* in it.
C35_ReleaseRegionKeepsNoNotes ==
    \A i \in Regs :
        ReleaseTriggered(i) => regions[i].notes_for_release_trigger = {}

\* A release region that fired at a NoteOff under the pushed pedal and then
\* stored a NoteOn.
C35_Witness ==
    /\ ReleaseTriggered(1)
    /\ ev.op = "midi_event"
    /\ ev.msg = NoteOnMsg(60, 63)
    /\ regions[1].sustain_pedal_pushed
    /\ regions[1].last_note_on = <<60, 63>>
    /\ regions[1].sample # <<>>

----------------------------------------------------------------------------
(* C36: the pending-release set and the pedal *)

\* C36: in every state, a region whose sustain pedal is not pushed keeps no
\* note for the pedal release (notes_for_release_trigger is empty).
C36_NoPendingWithoutPedal ==
    \A i \in Regs :
        ~regions[i].sustain_pedal_pushed
            => regions[i].notes_for_release_trigger = {}

\* The pedal has just been released with the NoteOff of note 60 deferred:
\* the voice is releasing and the set is empty again.
C36_Witness ==
    /\ params[1].trigger = "Attack"
    /\ Progress(NoteOffSustainPedalScript) = 4
    /\ regions[1].sample # <<>>
    /\ \A k \in DOMAIN regions[1].sample :
          regions[1].sample[k].note = 60 /\ regions[1].sample[k].releasing
    /\ regions[1].notes_for_release_trigger = {}

----------------------------------------------------------------------------
(* An engine that is either the instrument whose events activate two groups *)
(* or a region with two keys under the sustain pedal.                      *)

InitOrder ==
    InitWith({DrawnGroupSetup, TriggerSetup("Attack", {60, 62}, {127})})

SpecOrder == InitOrder /\ [][Next]_vars

----------------------------------------------------------------------------
(* C37: the orders of the hash sets *)

\* The loop of sustain_pedal over the notes in a given order.
RECURSIVE NoteOffInOrder(_, _, _)
NoteOffInOrder(p, s, order) ==
    IF order = <<>> THEN s
    ELSE NoteOffInOrder(p, note_off(p, s, Head(order)), Tail(order))

\* sustain_pedal(false) of a region that is not a Release region, with the
\* clone of notes_for_release_trigger handing out the notes in a given order.
PedalReleaseInOrder(p, s, order) ==
    [NoteOffInOrder(p, [s EXCEPT !.sustain_pedal_pushed = FALSE], order)
        EXCEPT !.notes_for_release_trigger = {}]

\* C37: the regions after a MIDI event are the same for every order in which
\* the activated groups are handed out, and a pedal release would leave a
\* region in the same state for every order in which the deferred notes are
\* released.
C37_OrderIndependent ==
    /\ [][ev'.op = "midi_event" =>
             \A order \in Orders(ActivatedGroups(Passed(ev'.msg, ev'.rnd))) :
                 regions' = Broadcast(AfterPass(Passed(ev'.msg, ev'.rnd)),
                                      order)]_vars
    /\ [](\A i \in Regs :
             params[i].trigger # "Release" =>
                 \A order \in Orders(regions[i].notes_for_release_trigger) :
                     PedalReleaseInOrder(params[i], regions[i], order)
                        = sustain_pedal(params[i], regions[i], FALSE))

\* Two notes are deferred and both voices sound: the pedal release has two
\* orders to go through.
C37_Witness ==
    /\ regions[1].sustain_pedal_pushed
    /\ regions[1].notes_for_release_trigger = {60, 62}
    /\ Cardinality(NonReleasing(regions[1].sample, 60)) = 1
    /\ Cardinality(NonReleasing(regions[1].sample, 62)) = 1

----------------------------------------------------------------------------
(* C38: regions firing on the same event *)

\* The event released no voice that region q had before it, but for the
\* voices of the note it has just struck again.
EarlierVoicesKept(q) ==
    \A k \in DOMAIN regions[q].sample :
        regions'[q].sample[k].releasing
            => \/ regions[q].sample[k].releasing
               \/ regions[q].sample[k].note
                     = Youngest(regions'[q].sample).note

\* C38: when two regions start a voice in one MIDI event and the group g > 0
\* of one is the group or the off_by of the other, both new voices are
\* non-releasing after the event and the event releases no earlier voice of
\* the two regions.
C38_FiringRegionsDoNotChoke ==
    [][ev'.op = "midi_event" =>
          \A r, q \in ev'.started :
              (/\ r # q
               /\ params[r].group > 0
               /\ (params[q].group = params[r].group
                   \/ params[q].off_by = params[r].group))
              => /\ ~Youngest(regions'[r].sample).releasing
                 /\ ~Youngest(regions'[q].sample).releasing
                 /\ EarlierVoicesKept(r)
                 /\ EarlierVoicesKept(q)]_vars

----------------------------------------------------------------------------
(* C39: the stored note-on of a release region *)

\* C39: once a Release or ReleaseKey region has stored a note-on, every
\* NoteOff of a note inside its key range starts a voice with the stored
\* note and velocity, and the stored pair changes only at a NoteOn that
\* matches the region, which replaces it by its own note and velocity.
C39_LastNoteOnNeverCleared ==
    [][\A i \in Regs :
          (ReleaseTriggered(i) /\ regions[i].last_note_on # <<>>)
          => /\ (Midi("NoteOff") /\ InKeyRange(i, ev'.msg.note))
                => /\ i \in ev'.started
                   /\ StartedVoice(i, regions[i].last_note_on[1],
                                   regions[i].last_note_on[2])
             /\ regions'[i].last_note_on # regions[i].last_note_on
                => /\ Midi("NoteOn")
                   /\ InKeyRange(i, ev'.msg.note)
                   /\ InVelRange(i, ev'.msg.vel)
                   /\ regions'[i].last_note_on
                         = <<ev'.msg.note, ev'.msg.vel>>]_vars

\* A ReleaseKey region that stored NoteOn(60, 63) has answered two NoteOffs
\* with a voice of note 60, the last of them a NoteOff of 62, while 60 is
\* still held.
C39_Witness ==
    /\ params[1].trigger = "ReleaseKey"
    /\ regions[1].last_note_on = <<60, 63>>
    /\ ev.op = "midi_event"
    /\ ev.msg = NoteOffMsg(62)
    /\ 1 \in ev.started
    /\ hist.held = {60}
    /\ Len(regions[1].sample) = 2
    /\ \A k \in 1..2 : regions[1].sample[k].note = 60
    /\ regions[1].sample[2].gain = VelocityGain(63)
    /\ ~regions[1].sample[2].releasing

----------------------------------------------------------------------------
(* C40: a key pressed and released under the pedal, trigger=Release *)

\* One region with trigger Release; the scenario is a key pressed and
\* released while the pedal is pushed, and the pedal released after it.
ReleaseUnderPedalScript == <<PedalOn, On(60, 63), Off(60), PedalOff>>

ReleaseUnderPedalSetup ==
    [params |-> <<TriggerRegion("Release")>>,
     inputs |-> [notes |-> {60, 62}, vels |-> {30, 63},
                 ccs |-> {<<64, 63>>, <<64, 64>>}, rands |-> {0},
                 scripted |-> FALSE],
     script |-> <<ReleaseUnderPedalScript>>]

InitReleasePedal == InitWith({ReleaseUnderPedalSetup})

SpecReleasePedal == InitReleasePedal /\ [][Next]_vars

\* C40: in a region with trigger Release, while the pedal is pushed, the
\* NoteOff of the note whose matching NoteOn was the event before it starts
\* a voice of that note with the gain of its velocity at once, and a CC64
\* below 64 that follows such a NoteOff starts a second voice of the same
\* note and velocity, so that the region holds two voices of the one key
\* press.
C40_ReleaseNotDeferred ==
    [][\A i \in Regs :
          (params[i].trigger = "Release" /\ DOMAIN params[i].on_ccs = {}
           /\ hist.pedal /\ ev.op = "midi_event")
          => /\ (/\ ev.msg.type = "NoteOn"
                 /\ InKeyRange(i, ev.msg.note)
                 /\ InVelRange(i, ev.msg.vel)
                 /\ Midi("NoteOff")
                 /\ ev'.msg.note = ev.msg.note)
                => /\ i \in ev'.started
                   /\ StartedVoice(i, ev.msg.note, ev.msg.vel)
                   /\ regions'[i].notes_for_release_trigger = {}
             /\ (/\ ev.msg.type = "NoteOff"
                 /\ i \in ev.started
                 /\ ev.msg.note = regions[i].last_note_on[1]
                 /\ PedalReleased)
                => /\ i \in ev'.started
                   /\ StartedVoice(i, ev.msg.note,
                                   regions[i].last_note_on[2])
                   /\ regions'[i].sample[Len(regions[i].sample)].note
                         = ev.msg.note
                   /\ regions'[i].sample[Len(regions[i].sample)].gain
                         = VelocityGain(regions[i].last_note_on[2])]_vars

\* The pedal was pushed, key 60 pressed with velocity 63 and released, and
\* the pedal released: the region holds two voices of note 60 with the gain
\* of velocity 63, the second one started by the pedal.
C40_Witness ==
    /\ Progress(ReleaseUnderPedalScript) = 4
    /\ params[1].trigger = "Release"
    /\ ev.msg = ControlChangeMsg(64, 63)
    /\ 1 \in ev.started
    /\ Len(regions[1].sample) = 2
    /\ \A k \in 1..2 : /\ regions[1].sample[k].note = 60
                       /\ regions[1].sample[k].gain = VelocityGain(63)
    /\ ~regions[1].sample[2].releasing
    /\ hist.held = {}

====
